---- MODULE Spec2Model ----
(***************************************************************************)
(* A model of the TMDL text engine of pbip-mcp: the surgical text mutator  *)
(* (writers/tmdl_writer.py) and the indentation-driven parser              *)
(* (parsers/tmdl_parser.py).  A file is a sequence of lines, a line is a   *)
(* string; the Python string primitives the code uses (strip, startswith,  *)
(* the regular expressions of the definition lines) are operators on       *)
(* strings, so quoting, indentation and the spelling of a keyword line are *)
(* all visible to the properties.                                          *)
(***************************************************************************)
EXTENDS Integers, Sequences, FiniteSets, TLC

(***************************************************************************)
(* Python str primitives                                                   *)
(***************************************************************************)
Ch(s, i) == SubSeq(s, i, i)

StartsWith(s, p) == Len(s) >= Len(p) /\ SubSeq(s, 1, Len(p)) = p

EndsWith(s, p) == Len(s) >= Len(p) /\ SubSeq(s, Len(s) - Len(p) + 1, Len(s)) = p

Whitespace == {" ", "\t"}

QuoteChars == {"'", "\""}

\* the number of leading (trailing) characters of s that are in cs, counted
\* on from n
RECURSIVE LeadCount(_, _, _)
LeadCount(s, cs, n) ==
    IF n < Len(s) /\ Ch(s, n + 1) \in cs THEN LeadCount(s, cs, n + 1) ELSE n

RECURSIVE TrailCount(_, _, _)
TrailCount(s, cs, n) ==
    IF n < Len(s) /\ Ch(s, Len(s) - n) \in cs THEN TrailCount(s, cs, n + 1) ELSE n

Mid(s, a, b) == IF a > b THEN "" ELSE SubSeq(s, a, b)

LStripSet(s, cs) == Mid(s, LeadCount(s, cs, 0) + 1, Len(s))

RStripSet(s, cs) == Mid(s, 1, Len(s) - TrailCount(s, cs, 0))

StripSet(s, cs) == RStripSet(LStripSet(s, cs), cs)

Strip(s) == StripSet(s, Whitespace)

\* the first index >= i at which sub occurs in s, 0 when there is none
FindFrom(s, sub, i) ==
    LET hits == {k \in i..(Len(s) - Len(sub) + 1) : SubSeq(s, k, k + Len(sub) - 1) = sub}
    IN  IF hits = {} THEN 0 ELSE CHOOSE k \in hits : \A j \in hits : k <= j

Contains(s, sub) == FindFrom(s, sub, 1) # 0

LowerCh(c) ==
    CASE c = "A" -> "a"
      [] c = "B" -> "b"
      [] c = "C" -> "c"
      [] c = "D" -> "d"
      [] c = "E" -> "e"
      [] c = "F" -> "f"
      [] c = "G" -> "g"
      [] c = "H" -> "h"
      [] c = "I" -> "i"
      [] c = "J" -> "j"
      [] c = "K" -> "k"
      [] c = "L" -> "l"
      [] c = "M" -> "m"
      [] c = "N" -> "n"
      [] c = "O" -> "o"
      [] c = "P" -> "p"
      [] c = "Q" -> "q"
      [] c = "R" -> "r"
      [] c = "S" -> "s"
      [] c = "T" -> "t"
      [] c = "U" -> "u"
      [] c = "V" -> "v"
      [] c = "W" -> "w"
      [] c = "X" -> "x"
      [] c = "Y" -> "y"
      [] c = "Z" -> "z"
      [] OTHER -> c

RECURSIVE Lower(_)
Lower(s) == IF s = "" THEN "" ELSE LowerCh(Head(s)) \o Lower(Tail(s))

IsQuoted(s) ==
    \/ StartsWith(s, "'") /\ EndsWith(s, "'")
    \/ StartsWith(s, "\"") /\ EndsWith(s, "\"")

RECURSIVE Tabs(_)
Tabs(n) == IF n <= 0 THEN "" ELSE "\t" \o Tabs(n - 1)

SetMax0(S) == IF S = {} THEN 0 ELSE CHOOSE m \in S : \A k \in S : k <= m

SetMin0(S) == IF S = {} THEN 0 ELSE CHOOSE m \in S : \A k \in S : m <= k

(***************************************************************************)
(* The regular expressions of the definition lines.  s is a stripped line  *)
(* that starts with kw followed by whitespace.  A match is a record        *)
(* [ok, name, rest]; rest is the text after the "=" of the match.          *)
(***************************************************************************)
NoMatch == [ok |-> FALSE, name |-> "", rest |-> ""]

NameStart(s, kw) == Len(kw) + LeadCount(Mid(s, Len(kw) + 1, Len(s)), Whitespace, 0) + 1

\* kw\s+(.+?)\s*=     (re.match, lazy name up to the first "=")
RegexNameEq(s, kw) ==
    LET p == NameStart(s, kw)
        q == FindFrom(s, "=", p + 1)
    IN  IF p > Len(s) THEN NoMatch
        ELSE IF q # 0
        THEN [ok |-> TRUE, name |-> RStripSet(Mid(s, p, q - 1), Whitespace),
              rest |-> Mid(s, q + 1, Len(s))]
        ELSE IF Ch(s, p) = "=" /\ p - Len(kw) >= 3
        THEN [ok |-> TRUE, name |-> Ch(s, p - 1), rest |-> Mid(s, p + 1, Len(s))]
        ELSE NoMatch

\* kw\s+(.+?)\s*=\s*(.+)     (the "=" must be followed by a non-empty rest)
RegexNameEqExpr(s, kw) ==
    LET p == NameStart(s, kw)
        q == FindFrom(s, "=", p + 1)
    IN  IF p > Len(s) THEN NoMatch
        ELSE IF q # 0 /\ q < Len(s)
        THEN [ok |-> TRUE, name |-> RStripSet(Mid(s, p, q - 1), Whitespace),
              rest |-> Mid(s, q + 1, Len(s))]
        ELSE IF q = 0 /\ Ch(s, p) = "=" /\ p - Len(kw) >= 3 /\ p < Len(s)
        THEN [ok |-> TRUE, name |-> Ch(s, p - 1), rest |-> Mid(s, p + 1, Len(s))]
        ELSE NoMatch

\* kw\s+(.+?)(\s*=|$)
RegexNameEqOrEnd(s, kw) ==
    LET p == NameStart(s, kw)
        q == FindFrom(s, "=", p + 1)
    IN  IF p > Len(s) THEN NoMatch
        ELSE IF q # 0
        THEN [ok |-> TRUE, name |-> RStripSet(Mid(s, p, q - 1), Whitespace),
              rest |-> Mid(s, q + 1, Len(s))]
        ELSE [ok |-> TRUE, name |-> Mid(s, p, Len(s)), rest |-> ""]

\* kw\s+(.+)
RegexNameRest(s, kw) ==
    LET p == NameStart(s, kw)
    IN  IF p > Len(s) \/ p = Len(kw) + 1 THEN NoMatch
        ELSE [ok |-> TRUE, name |-> Mid(s, p, Len(s)), rest |-> ""]

(***************************************************************************)
(* TMDLWriter (writers/tmdl_writer.py)                                     *)
(*                                                                         *)
(* A value of an update is [t |-> "str", v |-> string] or                  *)
(* [t |-> "bool", v |-> BOOLEAN]; an update set is a sequence of           *)
(* [prop, val] pairs in the order the caller's dict was filled.            *)
(***************************************************************************)
writer_get_indentation(line) == LeadCount(line, {"\t"}, 0)

\* a test of the keyword alone, which takes every element of the keyword for
\* the one that is named
is_element_definition_by_keyword(line, element_type, element_name) ==
    StartsWith(Strip(line), element_type \o " ")

is_element_definition(line, element_type, element_name) ==
    LET s == Strip(line)
        m == IF element_type = "measure" THEN RegexNameEq(s, "measure")
             ELSE IF element_type = "column" THEN RegexNameEqOrEnd(s, "column")
             ELSE IF element_type = "table" THEN RegexNameRest(s, "table")
             ELSE NoMatch
    IN  /\ StartsWith(s, element_type \o " ")
        /\ m.ok
        /\ StripSet(Strip(m.name), QuoteChars) = StripSet(element_name, QuoteChars)

update_expression_line(line, new_expression) ==
    LET k == FindFrom(line, " = ", 1)
    IN  IF k # 0 THEN Mid(line, 1, k - 1) \o " = " \o new_expression ELSE line

Str(v) == [t |-> "str", v |-> v]

Bool(v) == [t |-> "bool", v |-> v]

format_value(val) ==
    IF val.t = "str"
    THEN IF IsQuoted(val.v) THEN val.v ELSE "\"" \o val.v \o "\""
    ELSE IF val.v THEN "true" ELSE "false"

ReservedWords == {"table", "column", "measure", "partition", "relationship"}

NamePunctuation == {".", "-", "+", "*", "/", "(", ")", "[", "]", "{", "}", "@", "#", "$", "%", "^", "&"}

format_element_name(name) ==
    IF IsQuoted(name) THEN name
    ELSE IF \/ \E i \in 1..Len(name) : Ch(name, i) = " " \/ Ch(name, i) \in NamePunctuation
            \/ Lower(name) \in ReservedWords
    THEN "'" \o name \o "'"
    ELSE name

to_tmdl_property_name(property_name) ==
    CASE property_name = "format_string" -> "formatString"
      [] property_name = "data_type" -> "dataType"
      [] property_name = "summarize_by" -> "summarizeBy"
      [] property_name = "is_hidden" -> "isHidden"
      [] property_name = "lineage_tag" -> "lineageTag"
      [] property_name = "source_column" -> "sourceColumn"
      [] OTHER -> property_name

HasProp(updates, prop) == \E k \in 1..Len(updates) : updates[k].prop = prop

PropVal(updates, prop) ==
    updates[SetMax0({k \in 1..Len(updates) : updates[k].prop = prop})].val

RECURSIVE add_new_properties(_, _, _, _, _)
add_new_properties(lines, indent_level, properties, existing_properties, k) ==
    IF k > Len(properties) THEN lines
    ELSE LET prop == properties[k].prop
             value == properties[k].val
             tmdl_prop == to_tmdl_property_name(prop)
             out == IF prop \notin existing_properties /\ prop \notin {"expression", "name"}
                    THEN IF value.t = "bool" /\ value.v /\ tmdl_prop \in {"isHidden", "isPrivate"}
                         THEN Append(lines, Tabs(indent_level) \o tmdl_prop)
                         ELSE Append(lines, Tabs(indent_level) \o tmdl_prop \o ": " \o format_value(value))
                    ELSE lines
         IN  add_new_properties(out, indent_level, properties, existing_properties, k + 1)

\* the index of the first requested property whose line this is, 0 when none
MatchingProp(line, updates) ==
    SetMin0({k \in 1..Len(updates) :
                /\ updates[k].prop # "expression"
                /\ StartsWith(Strip(line), to_tmdl_property_name(updates[k].prop) \o ":")})

update_step(line, element_type, element_name, updates, st) ==
    IF is_element_definition(line, element_type, element_name)
    THEN LET rewrite == element_type \in {"measure", "column"} /\ HasProp(updates, "expression")
         IN  [st EXCEPT !.in_element = TRUE,
                        !.element_indent = writer_get_indentation(line),
                        !.properties_updated = IF rewrite THEN @ \cup {"expression"} ELSE @,
                        !.updated_lines =
                            Append(@, IF rewrite
                                      THEN update_expression_line(line, PropVal(updates, "expression").v)
                                      ELSE line)]
    ELSE IF st.in_element
    THEN IF Strip(line) # "" /\ writer_get_indentation(line) <= st.element_indent
         THEN [st EXCEPT !.in_element = FALSE,
                         !.updated_lines =
                             Append(add_new_properties(@, st.element_indent + 1, updates,
                                                       st.properties_updated, 1), line)]
         ELSE LET k == MatchingProp(line, updates)
              IN  IF k # 0
                  THEN [st EXCEPT !.updated_lines =
                                      Append(@, Tabs(st.element_indent + 1)
                                                \o to_tmdl_property_name(updates[k].prop)
                                                \o ": " \o format_value(updates[k].val)),
                                  !.properties_updated = @ \cup {updates[k].prop}]
                  ELSE [st EXCEPT !.updated_lines = Append(@, line)]
    ELSE [st EXCEPT !.updated_lines = Append(@, line)]

RECURSIVE update_loop(_, _, _, _, _, _)
update_loop(lines, i, element_type, element_name, updates, st) ==
    IF i > Len(lines) THEN st
    ELSE update_loop(lines, i + 1, element_type, element_name, updates,
                     update_step(lines[i], element_type, element_name, updates, st))

\* "\n".join(lines) read back with split("\n"): an empty list is one empty line
\* and a line that holds a line break is several lines
RECURSIVE SplitOn(_, _)
SplitOn(s, sep) ==
    LET k == FindFrom(s, sep, 1)
    IN  IF k = 0 THEN <<s>>
        ELSE <<Mid(s, 1, k - 1)>> \o SplitOn(Mid(s, k + Len(sep), Len(s)), sep)

RECURSIVE JoinWith(_, _)
JoinWith(lines, sep) ==
    IF lines = <<>> THEN ""
    ELSE IF Len(lines) = 1 THEN lines[1]
    ELSE lines[1] \o sep \o JoinWith(Tail(lines), sep)

RECURSIVE Flatten(_)
Flatten(ss) == IF ss = <<>> THEN <<>> ELSE Head(ss) \o Flatten(Tail(ss))

AsContent(lines) ==
    IF lines = <<>> THEN <<"">>
    ELSE IF \E k \in 1..Len(lines) : Contains(lines[k], "\n")
    THEN Flatten([k \in 1..Len(lines) |-> SplitOn(lines[k], "\n")])
    ELSE lines

\* an update that ends with the loop, without the properties of an element
\* that runs to the end of the file
update_element_without_tail(content, element_type, element_name, updates) ==
    AsContent(update_loop(content, 1, element_type, element_name, updates,
                          [in_element |-> FALSE, element_indent |-> 0,
                           properties_updated |-> {}, updated_lines |-> <<>>]).updated_lines)

update_element(content, element_type, element_name, updates) ==
    LET st == update_loop(content, 1, element_type, element_name, updates,
                          [in_element |-> FALSE, element_indent |-> 0,
                           properties_updated |-> {}, updated_lines |-> <<>>])
    IN  AsContent(IF st.in_element
                  THEN add_new_properties(st.updated_lines, st.element_indent + 1, updates,
                                          st.properties_updated, 1)
                  ELSE st.updated_lines)

delete_step(lines, i, element_type, element_name, st) ==
    LET line == lines[i]
        is_desc == StartsWith(Strip(line), "///")
    IN  IF /\ ~st.in_element
           /\ i + 1 <= Len(lines)
           /\ is_element_definition(lines[i + 1], element_type, element_name)
           /\ is_desc
        THEN [st EXCEPT !.removing_description = TRUE,
                        !.description_indent = writer_get_indentation(line)]
        ELSE IF /\ st.removing_description
                /\ is_desc
                /\ writer_get_indentation(line) = st.description_indent
        THEN st
        ELSE LET s1 == [st EXCEPT !.removing_description = FALSE]
             IN  IF is_element_definition(line, element_type, element_name)
                 THEN [s1 EXCEPT !.in_element = TRUE,
                                 !.element_indent = writer_get_indentation(line),
                                 !.skip_empty_after = TRUE]
                 ELSE IF /\ s1.in_element
                         /\ ~(Strip(line) # "" /\ writer_get_indentation(line) <= s1.element_indent)
                 THEN s1
                 ELSE IF s1.skip_empty_after /\ Strip(line) = ""
                 THEN [s1 EXCEPT !.in_element = FALSE, !.skip_empty_after = FALSE]
                 ELSE [s1 EXCEPT !.in_element = FALSE, !.skip_empty_after = FALSE,
                                 !.filtered_lines = Append(@, line)]

RECURSIVE delete_loop(_, _, _, _, _)
delete_loop(lines, i, element_type, element_name, st) ==
    IF i > Len(lines) THEN st
    ELSE delete_loop(lines, i + 1, element_type, element_name,
                     delete_step(lines, i, element_type, element_name, st))

delete_element(content, element_type, element_name) ==
    AsContent(delete_loop(content, 1, element_type, element_name,
                          [in_element |-> FALSE, element_indent |-> 0,
                           skip_empty_after |-> FALSE, removing_description |-> FALSE,
                           description_indent |-> 0, filtered_lines |-> <<>>]).filtered_lines)

\* the first line after position i that is non-blank at indentation <= that
\* of line i, or Len(lines) + 1: where the scan of a block stops
BlockStop(lines, i) ==
    LET stops == {j \in (i + 1)..Len(lines) :
                     /\ Strip(lines[j]) # ""
                     /\ writer_get_indentation(lines[j]) <= writer_get_indentation(lines[i])}
    IN  IF stops = {} THEN Len(lines) + 1 ELSE SetMin0(stops)

\* an insertion point without the anchors of the keyword: after the last
\* block of the keyword, else three lines before the end
find_insertion_point_without_anchor(lines, element_type) ==
    LET similar == {i \in 1..Len(lines) : StartsWith(Strip(lines[i]), element_type \o " ")}
    IN  IF similar # {} THEN BlockStop(lines, SetMax0(similar)) - 1
        ELSE IF Len(lines) - 3 > 0 THEN Len(lines) - 3 ELSE 0

\* the number of lines that precede the insertion (Python's 0-based index)
find_insertion_point(lines, element_type) ==
    LET similar == {i \in 1..Len(lines) : StartsWith(Strip(lines[i]), element_type \o " ")}
        anchors == IF element_type = "measure"
                   THEN {i \in 1..Len(lines) : \/ StartsWith(Strip(lines[i]), "column ")
                                                \/ StartsWith(Strip(lines[i]), "partition ")}
                   ELSE IF element_type = "column"
                   THEN {i \in 1..Len(lines) : StartsWith(Strip(lines[i]), "partition ")}
                   ELSE {}
    IN  IF similar # {} THEN BlockStop(lines, SetMax0(similar)) - 1
        ELSE IF anchors # {} THEN SetMin0(anchors) - 1
        ELSE IF Len(lines) - 3 > 0 THEN Len(lines) - 3 ELSE 0

\* an insertion that never adds the blank line after the block
add_element_without_separator(content, element_type, element_def, indent_level) ==
    LET insert_position == find_insertion_point(content, element_type)
        element_lines == SplitOn(StripSet(element_def, {" ", "\t", "\n"}), "\n")
        indented == [k \in 1..Len(element_lines) |-> Tabs(indent_level) \o element_lines[k]]
    IN  SubSeq(content, 1, insert_position) \o indented
        \o SubSeq(content, insert_position + 1, Len(content))

add_element(content, element_type, element_def, indent_level) ==
    LET insert_position == find_insertion_point(content, element_type)
        element_lines == SplitOn(StripSet(element_def, {" ", "\t", "\n"}), "\n")
        indented == [k \in 1..Len(element_lines) |-> Tabs(indent_level) \o element_lines[k]]
        lines == SubSeq(content, 1, insert_position) \o indented
                 \o SubSeq(content, insert_position + 1, Len(content))
        after == insert_position + Len(element_lines)
    IN  IF after < Len(lines) /\ Strip(lines[after + 1]) # ""
        THEN SubSeq(lines, 1, after) \o <<"">> \o SubSeq(lines, after + 1, Len(lines))
        ELSE lines

WrapWidth == 80

\* textwrap.fill(sentence, width=80, break_long_words=False,
\* break_on_hyphens=False) of a stripped sentence whose words are separated
\* by single spaces: greedy filling, a word never split
RECURSIVE WrapWords(_, _, _)
WrapWords(words, cur, out) ==
    IF words = <<>> THEN (IF cur = "" THEN out ELSE Append(out, cur))
    ELSE LET w == Head(words)
         IN  IF cur = "" THEN WrapWords(Tail(words), w, out)
             ELSE IF Len(cur) + 1 + Len(w) <= WrapWidth
             THEN WrapWords(Tail(words), cur \o " " \o w, out)
             ELSE WrapWords(Tail(words), w, Append(out, cur))

Wrap(sentence) ==
    IF Len(sentence) <= WrapWidth THEN <<sentence>>
    ELSE WrapWords(SelectSeq(SplitOn(sentence, " "), LAMBDA w : w # ""), "", <<>>)

RECURSIVE ReplaceAll(_, _, _)
ReplaceAll(s, old, new) ==
    LET k == FindFrom(s, old, 1)
    IN  IF k = 0 THEN s
        ELSE Mid(s, 1, k - 1) \o new \o ReplaceAll(Mid(s, k + Len(old), Len(s)), old, new)

split_description_for_comments(description) ==
    IF description = "" THEN <<>>
    ELSE LET sentences == SplitOn(ReplaceAll(description, ". ", ".\n"), "\n")
             kept == SelectSeq([k \in 1..Len(sentences) |-> Strip(sentences[k])],
                               LAMBDA x : x # "")
         IN  Flatten([k \in 1..Len(kept) |-> Wrap(kept[k])])

RECURSIVE pop_description_comments(_)
pop_description_comments(updated_lines) ==
    IF updated_lines # <<>> /\ StartsWith(Strip(updated_lines[Len(updated_lines)]), "///")
    THEN pop_description_comments(SubSeq(updated_lines, 1, Len(updated_lines) - 1))
    ELSE updated_lines

RECURSIVE description_loop(_, _, _, _, _, _)
description_loop(lines, i, element_type, element_name, description_lines, updated_lines) ==
    IF i > Len(lines) THEN updated_lines
    ELSE IF is_element_definition(lines[i], element_type, element_name)
    THEN description_loop(lines, i + 1, element_type, element_name, description_lines,
             pop_description_comments(updated_lines)
             \o [k \in 1..Len(description_lines) |->
                    Tabs(writer_get_indentation(lines[i])) \o "/// " \o description_lines[k]]
             \o <<lines[i]>>)
    ELSE description_loop(lines, i + 1, element_type, element_name, description_lines,
                          Append(updated_lines, lines[i]))

add_description_comments(content, element_type, element_name, description) ==
    AsContent(description_loop(content, 1, element_type, element_name,
                               split_description_for_comments(description), <<>>))

\* uuid is the value uuid.uuid4() returns when no lineage tag is supplied
format_measure_definition(name, expression, description, format_string, lineage_tag, uuid) ==
    LET tag == IF lineage_tag = "" THEN uuid ELSE lineage_tag
        desc == split_description_for_comments(description)
    IN  JoinWith([k \in 1..Len(desc) |-> "/// " \o desc[k]]
                 \o <<"measure " \o format_element_name(name) \o " = " \o expression,
                      "\tlineageTag: " \o tag>>
                 \o (IF format_string # "" THEN <<"\tformatString: \"" \o format_string \o "\"">>
                     ELSE <<>>),
                 "\n")

\* format_column_definition with summarizeBy written before formatString
format_column_definition_summarize_first(name, data_type, expression, format_string, summarize_by, is_hidden, lineage_tag, uuid) ==
    LET tag == IF lineage_tag = "" THEN uuid ELSE lineage_tag
    IN  JoinWith(<<IF expression # ""
                   THEN "column " \o format_element_name(name) \o " = " \o expression
                   ELSE "column " \o format_element_name(name),
                   "\tdataType: " \o data_type,
                   "\tlineageTag: " \o tag>>
                 \o (IF summarize_by # "" THEN <<"\tsummarizeBy: " \o summarize_by>> ELSE <<>>)
                 \o (IF format_string # "" THEN <<"\tformatString: \"" \o format_string \o "\"">>
                     ELSE <<>>)
                 \o (IF is_hidden THEN <<"\tisHidden">> ELSE <<>>),
                 "\n")

format_column_definition(name, data_type, expression, format_string, summarize_by, is_hidden, lineage_tag, uuid) ==
    LET tag == IF lineage_tag = "" THEN uuid ELSE lineage_tag
    IN  JoinWith(<<IF expression # ""
                   THEN "column " \o format_element_name(name) \o " = " \o expression
                   ELSE "column " \o format_element_name(name),
                   "\tdataType: " \o data_type,
                   "\tlineageTag: " \o tag>>
                 \o (IF format_string # "" THEN <<"\tformatString: \"" \o format_string \o "\"">>
                     ELSE <<>>)
                 \o (IF summarize_by # "" THEN <<"\tsummarizeBy: " \o summarize_by>> ELSE <<>>)
                 \o (IF is_hidden THEN <<"\tisHidden">> ELSE <<>>),
                 "\n")

(***************************************************************************)
(* TMDLParser (parsers/tmdl_parser.py)                                     *)
(*                                                                         *)
(* cur is current_line (0-based: the line at the cursor is lines[cur+1]),  *)
(* buf is description_buffer.  A parse routine returns a record with the   *)
(* new cursor, the value parsed and err, which is <<>> or <<e>> for a      *)
(* raised exception e.  An optional field is <<>> (absent) or <<v>>.       *)
(***************************************************************************)
parser_get_indentation(line) == LeadCount(line, Whitespace, 0)

TMDLParseError(message, line_number) ==
    <<[kind |-> "TMDLParseError", line_number |-> line_number, message |-> message]>>

ValueError == <<[kind |-> "ValueError", line_number |-> 0, message |-> "invalid literal"]>>

Unquote(name) == IF IsQuoted(name) THEN Mid(name, 2, Len(name) - 1) ELSE name

parse_property_value(line) ==
    LET k == FindFrom(line, ":", 1)
    IN  IF k = 0 THEN "" ELSE Unquote(Strip(Mid(line, k + 1, Len(line))))

Digits == {"0", "1", "2", "3", "4", "5", "6", "7", "8", "9"}

\* int(text) succeeds: an optional sign and decimal digits
IsIntLiteral(text) ==
    LET t == Strip(text)
        d == IF StartsWith(t, "-") \/ StartsWith(t, "+") THEN Mid(t, 2, Len(t)) ELSE t
    IN  d # "" /\ \A i \in 1..Len(d) : Ch(d, i) \in Digits

\* float(text) succeeds, for a text with a decimal point: digits around one point
IsFloatLiteral(text) ==
    LET t == Strip(text)
        d == IF StartsWith(t, "-") \/ StartsWith(t, "+") THEN Mid(t, 2, Len(t)) ELSE t
        k == FindFrom(d, ".", 1)
    IN  /\ k # 0
        /\ Len(d) >= 2
        /\ \A i \in 1..Len(d) : i # k => Ch(d, i) \in Digits

\* the texts json.loads accepts, among those the model feeds it
ValidJson == {"{}", "[]", "[1, 2]", "{\"a\": 1}"}

\* a coercion that knows the booleans in lower case only, and takes every
\* token with a decimal point for a float
parse_annotation_value_lower_case_only(value_str0) ==
    LET value_str == Strip(value_str0)
    IN  IF IsQuoted(value_str)
        THEN [kind |-> "string", text |-> Mid(value_str, 2, Len(value_str) - 1)]
        ELSE IF StartsWith(value_str, "{") \/ StartsWith(value_str, "[")
        THEN IF value_str \in ValidJson THEN [kind |-> "json", text |-> value_str]
             ELSE [kind |-> "string", text |-> value_str]
        ELSE IF value_str \in {"true", "false"}
        THEN [kind |-> "bool", text |-> value_str]
        ELSE IF Contains(value_str, ".")
        THEN [kind |-> "float", text |-> value_str]
        ELSE IF IsIntLiteral(value_str)
        THEN [kind |-> "int", text |-> value_str]
        ELSE [kind |-> "string", text |-> value_str]

parse_annotation_value(value_str0) ==
    LET value_str == Strip(value_str0)
    IN  IF IsQuoted(value_str)
        THEN [kind |-> "string", text |-> Mid(value_str, 2, Len(value_str) - 1)]
        ELSE IF StartsWith(value_str, "{") \/ StartsWith(value_str, "[")
        THEN IF value_str \in ValidJson THEN [kind |-> "json", text |-> value_str]
             ELSE [kind |-> "string", text |-> value_str]
        ELSE IF Lower(value_str) \in {"true", "false"}
        THEN [kind |-> "bool", text |-> Lower(value_str)]
        ELSE IF Contains(value_str, ".") /\ IsFloatLiteral(value_str)
        THEN [kind |-> "float", text |-> value_str]
        ELSE IF ~Contains(value_str, ".") /\ IsIntLiteral(value_str)
        THEN [kind |-> "int", text |-> value_str]
        ELSE [kind |-> "string", text |-> value_str]

parse_annotation(lines, cur) ==
    LET m == RegexNameEqExpr(Strip(lines[cur + 1]), "annotation")
    IN  IF ~m.ok
        THEN [cur |-> cur, err |-> TMDLParseError("Invalid annotation definition", cur + 1),
              val |-> [name |-> "", value |-> parse_annotation_value("")]]
        ELSE [cur |-> cur + 1, err |-> <<>>,
              val |-> [name |-> m.name, value |-> parse_annotation_value(m.rest)]]

RECURSIVE variation_loop(_, _)
variation_loop(lines, st) ==
    IF st.cur >= Len(lines) THEN st
    ELSE LET line == lines[st.cur + 1]
             indent == parser_get_indentation(line)
             c == Strip(line)
         IN  IF c = "" THEN variation_loop(lines, [st EXCEPT !.cur = @ + 1])
             ELSE IF st.base_indent # -1 /\ indent <= st.base_indent THEN st
             ELSE variation_loop(lines,
                    [st EXCEPT !.cur = @ + 1,
                               !.base_indent = IF @ = -1 THEN indent ELSE @,
                               !.val = IF StartsWith(c, "isDefault")
                                       THEN [@ EXCEPT !.is_default = TRUE]
                                       ELSE IF StartsWith(c, "relationship:")
                                       THEN [@ EXCEPT !.relationship = <<parse_property_value(c)>>]
                                       ELSE IF StartsWith(c, "defaultHierarchy:")
                                       THEN [@ EXCEPT !.default_hierarchy = <<parse_property_value(c)>>]
                                       ELSE @])

parse_variation(lines, cur) ==
    LET m == RegexNameRest(Strip(lines[cur + 1]), "variation")
        empty == [name |-> m.name, is_default |-> FALSE, relationship |-> <<>>,
                  default_hierarchy |-> <<>>]
    IN  IF ~m.ok
        THEN [cur |-> cur, err |-> TMDLParseError("Invalid variation definition", cur + 1),
              val |-> empty]
        ELSE LET Result(st) == [cur |-> st.cur, err |-> <<>>, val |-> st.val]
             IN  Result(variation_loop(lines, [cur |-> cur + 1, base_indent |-> -1, val |-> empty]))

ColumnProperty(column, c) ==
    IF StartsWith(c, "dataType:") THEN [column EXCEPT !.data_type = parse_property_value(c)]
    ELSE IF StartsWith(c, "lineageTag:") THEN [column EXCEPT !.lineage_tag = parse_property_value(c)]
    ELSE IF StartsWith(c, "summarizeBy:") THEN [column EXCEPT !.summarize_by = parse_property_value(c)]
    ELSE IF StartsWith(c, "formatString:") THEN [column EXCEPT !.format_string = <<parse_property_value(c)>>]
    ELSE IF StartsWith(c, "sourceColumn:") THEN [column EXCEPT !.source_column = <<parse_property_value(c)>>]
    ELSE IF StartsWith(c, "dataCategory:") THEN [column EXCEPT !.data_category = <<parse_property_value(c)>>]
    ELSE IF StartsWith(c, "sortByColumn:") THEN [column EXCEPT !.sort_by_column = <<parse_property_value(c)>>]
    ELSE IF StartsWith(c, "isHidden") THEN [column EXCEPT !.is_hidden = TRUE]
    ELSE IF StartsWith(c, "isNameInferred") THEN [column EXCEPT !.is_name_inferred = TRUE]
    ELSE column

RECURSIVE column_loop(_, _)
column_loop(lines, st) ==
    IF st.err # <<>> \/ st.cur >= Len(lines) THEN st
    ELSE LET line == lines[st.cur + 1]
             indent == parser_get_indentation(line)
             c == Strip(line)
         IN  IF c = "" THEN column_loop(lines, [st EXCEPT !.cur = @ + 1])
             ELSE IF /\ st.base_indent # -1
                     /\ indent <= st.base_indent
                     /\ ~(StartsWith(c, "annotation") \/ StartsWith(c, "variation"))
             THEN st
             ELSE LET base == IF st.base_indent = -1 THEN indent ELSE st.base_indent
                  IN  IF StartsWith(c, "annotation ")
                      THEN LET Continue(a) == column_loop(lines,
                                                [st EXCEPT !.cur = a.cur, !.err = a.err, !.base_indent = base,
                                                           !.val = IF a.err = <<>>
                                                                   THEN [@ EXCEPT !.annotations = Append(@, a.val)]
                                                                   ELSE @])
                           IN  Continue(parse_annotation(lines, st.cur))
                      ELSE IF StartsWith(c, "variation ")
                      THEN LET Continue(v) == column_loop(lines,
                                                [st EXCEPT !.cur = v.cur, !.err = v.err, !.base_indent = base,
                                                           !.val = IF v.err = <<>>
                                                                   THEN [@ EXCEPT !.variation = <<v.val>>]
                                                                   ELSE @])
                           IN  Continue(parse_variation(lines, st.cur))
                      ELSE column_loop(lines,
                             [st EXCEPT !.cur = @ + 1, !.base_indent = base,
                                        !.val = ColumnProperty(@, c)])

EmptyColumn(name) ==
    [name |-> name, lineage_tag |-> "", data_type |-> "string", summarize_by |-> "none",
     annotations |-> <<>>, is_hidden |-> FALSE, is_name_inferred |-> FALSE,
     expression |-> <<>>, format_string |-> <<>>, source_column |-> <<>>,
     data_category |-> <<>>, sort_by_column |-> <<>>, variation |-> <<>>,
     description |-> <<>>]

parse_column(lines, cur) ==
    LET line == Strip(lines[cur + 1])
        calculated == Contains(line, " = ")
        m == IF calculated THEN RegexNameEqExpr(line, "column") ELSE RegexNameRest(line, "column")
    IN  IF ~m.ok
        THEN [cur |-> cur, val |-> EmptyColumn(""),
              err |-> TMDLParseError(IF calculated THEN "Invalid calculated column definition"
                                     ELSE "Invalid column definition", cur + 1)]
        ELSE LET column == [EmptyColumn(Unquote(Strip(m.name))) EXCEPT
                               !.expression = IF calculated THEN <<Strip(m.rest)>> ELSE <<>>]
                 Result(st) == [cur |-> st.cur, err |-> st.err, val |-> st.val]
             IN  Result(column_loop(lines, [cur |-> cur + 1, base_indent |-> -1,
                                            err |-> <<>>, val |-> column]))

\* _skip_measure_properties: the cursor after the lines it skips
RECURSIVE skip_measure_properties(_, _, _)
skip_measure_properties(lines, cur, base_indent) ==
    IF cur >= Len(lines) THEN cur
    ELSE LET line == lines[cur + 1]
             indent == parser_get_indentation(line)
         IN  IF Strip(line) = "" THEN skip_measure_properties(lines, cur + 1, base_indent)
             ELSE IF base_indent = -1 THEN skip_measure_properties(lines, cur + 1, indent)
             ELSE IF indent <= base_indent THEN cur
             ELSE skip_measure_properties(lines, cur + 1, base_indent)

MeasureProperty(measure, c) ==
    IF StartsWith(c, "lineageTag:") THEN [measure EXCEPT !.lineage_tag = parse_property_value(c)]
    ELSE IF StartsWith(c, "formatString:") THEN [measure EXCEPT !.format_string = <<parse_property_value(c)>>]
    ELSE IF StartsWith(c, "isHidden") THEN [measure EXCEPT !.is_hidden = TRUE]
    ELSE IF StartsWith(c, "changedProperty") THEN measure
    ELSE IF StartsWith(c, "displayFolder:") THEN [measure EXCEPT !.display_folder = <<parse_property_value(c)>>]
    ELSE measure

RECURSIVE measure_loop(_, _)
measure_loop(lines, st) ==
    IF st.err # <<>> \/ st.cur >= Len(lines) THEN st
    ELSE LET line == lines[st.cur + 1]
             indent == parser_get_indentation(line)
             c == Strip(line)
         IN  IF c = "" THEN measure_loop(lines, [st EXCEPT !.cur = @ + 1])
             ELSE IF /\ st.base_indent # -1
                     /\ indent <= st.base_indent
                     /\ ~StartsWith(c, "annotation")
             THEN st
             ELSE LET base == IF st.base_indent = -1 THEN indent ELSE st.base_indent
                  IN  IF StartsWith(c, "annotation ")
                      THEN LET Continue(a) == measure_loop(lines,
                                                [st EXCEPT !.cur = a.cur, !.err = a.err, !.base_indent = base,
                                                           !.val = IF a.err = <<>> /\ a.val.name # "Description"
                                                                   THEN [@ EXCEPT !.annotations = Append(@, a.val)]
                                                                   ELSE @])
                           IN  Continue(parse_annotation(lines, st.cur))
                      ELSE measure_loop(lines,
                             [st EXCEPT !.cur = @ + 1, !.base_indent = base,
                                        !.val = MeasureProperty(@, c)])

EmptyMeasure(name, expression) ==
    [name |-> name, expression |-> expression, lineage_tag |-> "", annotations |-> <<>>,
     is_hidden |-> FALSE, format_string |-> <<>>, display_folder |-> <<>>,
     description |-> <<>>]

\* val is <<>> for a measure that was skipped (the routine returned None)
parse_measure(lines, cur) ==
    LET m == RegexNameEqExpr(Strip(lines[cur + 1]), "measure")
        measure_name == Strip(m.name)
    IN  IF ~m.ok \/ (Contains(measure_name, " ") /\ ~IsQuoted(measure_name))
        THEN [cur |-> skip_measure_properties(lines, cur + 1, -1), err |-> <<>>, val |-> <<>>]
        ELSE LET Result(st) == [cur |-> st.cur, err |-> st.err, val |-> <<st.val>>]
             IN  Result(measure_loop(lines, [cur |-> cur + 1, base_indent |-> -1, err |-> <<>>,
                                             val |-> EmptyMeasure(measure_name, Strip(m.rest))]))

\* _parse_multiline_expression: val is the list of the cleaned lines
RECURSIVE multiline_loop(_, _)
multiline_loop(lines, st) ==
    IF st.cur >= Len(lines) THEN st
    ELSE LET line == lines[st.cur + 1]
             indent == parser_get_indentation(line)
         IN  IF Strip(line) = "" THEN multiline_loop(lines, [st EXCEPT !.cur = @ + 1])
             ELSE IF st.base_indent # -1 /\ indent < st.base_indent THEN st
             ELSE LET base == IF st.base_indent = -1 THEN indent ELSE st.base_indent
                  IN  multiline_loop(lines,
                        [st EXCEPT !.cur = @ + 1, !.base_indent = base,
                                   !.val = Append(@, IF Len(line) > base
                                                     THEN Mid(line, base + 1, Len(line))
                                                     ELSE Strip(line))])

parse_multiline_expression(lines, cur) ==
    LET Result(st) == [cur |-> st.cur, val |-> StripSet(JoinWith(st.val, "\n"), {" ", "\t", "\n"})]
    IN  Result(multiline_loop(lines, [cur |-> cur, base_indent |-> -1, val |-> <<>>]))

RECURSIVE level_loop(_, _)
level_loop(lines, st) ==
    IF st.cur >= Len(lines) THEN st
    ELSE LET line == lines[st.cur + 1]
             indent == parser_get_indentation(line)
             c == Strip(line)
         IN  IF c = "" THEN level_loop(lines, [st EXCEPT !.cur = @ + 1])
             ELSE IF st.base_indent # -1 /\ indent <= st.base_indent THEN st
             ELSE level_loop(lines,
                    [st EXCEPT !.cur = @ + 1,
                               !.base_indent = IF @ = -1 THEN indent ELSE @,
                               !.val = IF StartsWith(c, "lineageTag:")
                                       THEN [@ EXCEPT !.lineage_tag = parse_property_value(c)]
                                       ELSE IF StartsWith(c, "column:")
                                       THEN [@ EXCEPT !.column = parse_property_value(c)]
                                       ELSE @])

parse_hierarchy_level(lines, cur) ==
    LET m == RegexNameRest(Strip(lines[cur + 1]), "level")
        empty == [name |-> m.name, lineage_tag |-> "", column |-> ""]
    IN  IF ~m.ok
        THEN [cur |-> cur, val |-> empty,
              err |-> TMDLParseError("Invalid hierarchy level definition", cur + 1)]
        ELSE LET Result(st) == [cur |-> st.cur, err |-> <<>>, val |-> st.val]
             IN  Result(level_loop(lines, [cur |-> cur + 1, base_indent |-> -1, val |-> empty]))

RECURSIVE hierarchy_loop(_, _)
hierarchy_loop(lines, st) ==
    IF st.err # <<>> \/ st.cur >= Len(lines) THEN st
    ELSE LET line == lines[st.cur + 1]
             indent == parser_get_indentation(line)
             c == Strip(line)
         IN  IF c = "" THEN hierarchy_loop(lines, [st EXCEPT !.cur = @ + 1])
             ELSE IF /\ st.base_indent # -1
                     /\ indent <= st.base_indent
                     /\ ~(StartsWith(c, "level") \/ StartsWith(c, "annotation"))
             THEN st
             ELSE LET base == IF st.base_indent = -1 THEN indent ELSE st.base_indent
                  IN  IF StartsWith(c, "lineageTag:")
                      THEN hierarchy_loop(lines,
                             [st EXCEPT !.cur = @ + 1, !.base_indent = base,
                                        !.val.lineage_tag = parse_property_value(c)])
                      ELSE IF StartsWith(c, "level ")
                      THEN LET Continue(l) == hierarchy_loop(lines,
                                                [st EXCEPT !.cur = l.cur, !.err = l.err, !.base_indent = base,
                                                           !.val.levels = IF l.err = <<>> THEN Append(@, l.val)
                                                                          ELSE @])
                           IN  Continue(parse_hierarchy_level(lines, st.cur))
                      ELSE IF StartsWith(c, "annotation ")
                      THEN LET Continue(a) == hierarchy_loop(lines,
                                                [st EXCEPT !.cur = a.cur, !.err = a.err, !.base_indent = base,
                                                           !.val.annotations = IF a.err = <<>>
                                                                               THEN Append(@, a.val) ELSE @])
                           IN  Continue(parse_annotation(lines, st.cur))
                      ELSE hierarchy_loop(lines, [st EXCEPT !.cur = @ + 1, !.base_indent = base])

parse_hierarchy(lines, cur) ==
    LET m == RegexNameRest(Strip(lines[cur + 1]), "hierarchy")
        empty == [name |-> Unquote(Strip(m.name)), lineage_tag |-> "", levels |-> <<>>,
                  annotations |-> <<>>]
    IN  IF ~m.ok
        THEN [cur |-> cur, val |-> empty,
              err |-> TMDLParseError("Invalid hierarchy definition", cur + 1)]
        ELSE LET Result(st) == [cur |-> st.cur, err |-> st.err, val |-> st.val]
             IN  Result(hierarchy_loop(lines, [cur |-> cur + 1, base_indent |-> -1,
                                               err |-> <<>>, val |-> empty]))

\* _parse_source: a single-line source leaves the cursor on its line
parse_source(lines, cur) ==
    LET line == Strip(lines[cur + 1])
    IN  IF StartsWith(line, "source =")
        THEN [cur |-> cur, val |-> Strip(ReplaceAll(line, "source =", ""))]
        ELSE IF StartsWith(line, "source")
        THEN parse_multiline_expression(lines, cur + 1)
        ELSE [cur |-> cur, val |-> ""]

RECURSIVE partition_loop(_, _)
partition_loop(lines, st) ==
    IF st.cur >= Len(lines) THEN st
    ELSE LET line == lines[st.cur + 1]
             indent == parser_get_indentation(line)
             c == Strip(line)
         IN  IF c = "" THEN partition_loop(lines, [st EXCEPT !.cur = @ + 1])
             ELSE IF /\ st.base_indent # -1
                     /\ indent <= st.base_indent
                     /\ ~StartsWith(c, "source")
             THEN st
             ELSE LET base == IF st.base_indent = -1 THEN indent ELSE st.base_indent
                  IN  IF StartsWith(c, "mode:")
                      THEN partition_loop(lines,
                             [st EXCEPT !.cur = @ + 1, !.base_indent = base,
                                        !.val.mode = parse_property_value(c)])
                      ELSE IF StartsWith(c, "source")
                      THEN LET Take(src) == [st EXCEPT !.cur = src.cur, !.base_indent = base,
                                                       !.val.source = src.val]
                           IN  Take(parse_source(lines, st.cur))
                      ELSE partition_loop(lines, [st EXCEPT !.cur = @ + 1, !.base_indent = base])

parse_partition(lines, cur) ==
    LET line == Strip(lines[cur + 1])
        with_mode == Contains(line, " = ")
        m == IF with_mode THEN RegexNameEqExpr(line, "partition")
             ELSE RegexNameRest(line, "partition")
        empty == [name |-> Strip(m.name), mode |-> IF with_mode THEN Strip(m.rest) ELSE "import",
                  source |-> ""]
    IN  IF ~m.ok
        THEN [cur |-> cur, val |-> empty,
              err |-> TMDLParseError("Invalid partition definition", cur + 1)]
        ELSE LET Result(st) == [cur |-> st.cur, err |-> <<>>, val |-> st.val]
             IN  Result(partition_loop(lines, [cur |-> cur + 1, base_indent |-> -1, val |-> empty]))

parse_calculation_item(lines, cur) ==
    LET line == Strip(lines[cur + 1])
        remainder == Strip(Mid(line, Len("calculationItem") + 1, Len(line)))
        k == FindFrom(remainder, " = ", 1)
        failed == [cur |-> cur, val |-> [name |-> "", expression |-> ""],
                   err |-> TMDLParseError("Invalid calculation item definition", cur + 1)]
    IN  IF Contains(line, " = ")
        THEN IF ~StartsWith(line, "calculationItem") \/ k = 0 THEN failed
             ELSE LET name == Unquote(Strip(Mid(remainder, 1, k - 1)))
                      expression_start == Strip(Mid(remainder, k + 3, Len(remainder)))
                      Result(body) == [cur |-> body.cur, err |-> <<>>,
                                       val |-> [name |-> name, expression |-> body.val]]
                  IN  IF expression_start = ""
                      THEN Result(parse_multiline_expression(lines, cur + 1))
                      ELSE [cur |-> cur + 1, err |-> <<>>,
                            val |-> [name |-> name, expression |-> expression_start]]
        ELSE LET m == RegexNameRest(line, "calculationItem")
                 Result(body) == [cur |-> body.cur, err |-> <<>>,
                                  val |-> [name |-> Unquote(Strip(m.name)),
                                           expression |-> body.val]]
             IN  IF ~m.ok THEN failed
                 ELSE Result(parse_multiline_expression(lines, cur + 1))

RECURSIVE calculation_group_loop(_, _)
calculation_group_loop(lines, st) ==
    IF st.err # <<>> \/ st.cur >= Len(lines) THEN st
    ELSE LET line == lines[st.cur + 1]
             indent == parser_get_indentation(line)
             c == Strip(line)
         IN  IF c = "" THEN calculation_group_loop(lines, [st EXCEPT !.cur = @ + 1])
             ELSE IF /\ st.base_indent # -1
                     /\ indent <= st.base_indent
                     /\ ~StartsWith(c, "calculationItem")
             THEN st
             ELSE LET base == IF st.base_indent = -1 THEN indent ELSE st.base_indent
                  IN  IF StartsWith(c, "precedence:")
                      THEN IF IsIntLiteral(parse_property_value(c))
                           THEN calculation_group_loop(lines,
                                  [st EXCEPT !.cur = @ + 1, !.base_indent = base,
                                             !.val.precedence = <<parse_property_value(c)>>])
                           ELSE [st EXCEPT !.err = ValueError]
                      ELSE IF StartsWith(c, "calculationItem ")
                      THEN LET Continue(it) == calculation_group_loop(lines,
                                                 [st EXCEPT !.cur = it.cur, !.err = it.err, !.base_indent = base,
                                                            !.val.calculation_items =
                                                                IF it.err = <<>> THEN Append(@, it.val) ELSE @])
                           IN  Continue(parse_calculation_item(lines, st.cur))
                      ELSE calculation_group_loop(lines,
                             [st EXCEPT !.cur = @ + 1, !.base_indent = base])

parse_calculation_group(lines, cur) ==
    LET Result(st) == [cur |-> st.cur, err |-> st.err, val |-> st.val]
    IN  Result(calculation_group_loop(lines,
                   [cur |-> cur + 1, base_indent |-> -1, err |-> <<>>,
                    val |-> [calculation_items |-> <<>>, precedence |-> <<>>]]))

\* " ".join(description_buffer) if description_buffer else None; a description
\* that is the empty string is not attached
Description(buf) ==
    IF buf = <<>> \/ JoinWith(buf, " ") = "" THEN <<>> ELSE <<JoinWith(buf, " ")>>

\* one iteration of the loop of _parse_table on a non-blank line that does
\* not leave the table
table_line(lines, st, c) ==
    IF StartsWith(c, "///")
    THEN [st EXCEPT !.cur = @ + 1, !.buf = Append(@, Strip(Mid(c, 4, Len(c))))]
    ELSE IF StartsWith(c, "//")
    THEN [st EXCEPT !.cur = @ + 1, !.buf = <<>>]
    ELSE IF StartsWith(c, "lineageTag:")
    THEN [st EXCEPT !.cur = @ + 1, !.val.lineage_tag = <<parse_property_value(c)>>]
    ELSE IF StartsWith(c, "isHidden")
    THEN [st EXCEPT !.cur = @ + 1, !.val.is_hidden = TRUE]
    ELSE IF StartsWith(c, "isPrivate")
    THEN [st EXCEPT !.cur = @ + 1, !.val.is_private = TRUE]
    ELSE IF StartsWith(c, "showAsVariationsOnly")
    THEN [st EXCEPT !.cur = @ + 1, !.val.show_as_variations_only = TRUE]
    ELSE IF StartsWith(c, "column ")
    THEN LET Take(r) == [st EXCEPT !.cur = r.cur, !.err = r.err, !.buf = <<>>,
                                   !.val.columns =
                                       IF r.err = <<>>
                                       THEN Append(@, [r.val EXCEPT !.description = Description(st.buf)])
                                       ELSE @]
         IN  Take(parse_column(lines, st.cur))
    ELSE IF StartsWith(c, "measure ")
    THEN LET Take(r) == [st EXCEPT !.cur = r.cur, !.err = r.err, !.buf = <<>>,
                                   !.val.measures =
                                       IF r.err = <<>> /\ r.val # <<>>
                                       THEN Append(@, [r.val[1] EXCEPT !.description = Description(st.buf)])
                                       ELSE @]
         IN  Take(parse_measure(lines, st.cur))
    ELSE IF StartsWith(c, "hierarchy ")
    THEN LET Take(r) == [st EXCEPT !.cur = r.cur, !.err = r.err,
                                   !.val.hierarchies = IF r.err = <<>> THEN Append(@, r.val) ELSE @]
         IN  Take(parse_hierarchy(lines, st.cur))
    ELSE IF StartsWith(c, "partition ")
    THEN LET Take(r) == [st EXCEPT !.cur = r.cur, !.err = r.err,
                                   !.val.partitions = IF r.err = <<>> THEN Append(@, r.val) ELSE @]
         IN  Take(parse_partition(lines, st.cur))
    ELSE IF StartsWith(c, "calculationGroup")
    THEN LET Take(r) == [st EXCEPT !.cur = r.cur, !.err = r.err,
                                   !.val.calculation_group = IF r.err = <<>> THEN <<r.val>> ELSE @]
         IN  Take(parse_calculation_group(lines, st.cur))
    ELSE IF StartsWith(c, "annotation ")
    THEN LET Take(r) == [st EXCEPT !.cur = r.cur, !.err = r.err,
                                   !.val.annotations = IF r.err = <<>> THEN Append(@, r.val) ELSE @]
         IN  Take(parse_annotation(lines, st.cur))
    ELSE [st EXCEPT !.cur = @ + 1, !.buf = <<>>]

RECURSIVE table_loop(_, _)
table_loop(lines, st) ==
    IF st.err # <<>> \/ st.cur >= Len(lines) THEN st
    ELSE LET line == lines[st.cur + 1]
             indent == parser_get_indentation(line)
             c == Strip(line)
         IN  IF c = "" THEN table_loop(lines, [st EXCEPT !.cur = @ + 1])
             ELSE IF st.base_indent # -1 /\ indent <= 0 THEN st
             ELSE table_loop(lines,
                    table_line(lines,
                               [st EXCEPT !.base_indent = IF @ = -1 THEN indent ELSE @], c))

EmptyTable(name) ==
    [name |-> name, columns |-> <<>>, measures |-> <<>>, hierarchies |-> <<>>,
     partitions |-> <<>>, annotations |-> <<>>, is_hidden |-> FALSE, is_private |-> FALSE,
     show_as_variations_only |-> FALSE, lineage_tag |-> <<>>, calculation_group |-> <<>>,
     description |-> <<>>]

parse_table(lines, cur, buf) ==
    LET m == RegexNameRest(Strip(lines[cur + 1]), "table")
    IN  IF ~m.ok
        THEN [cur |-> cur, buf |-> buf, val |-> EmptyTable(""),
              err |-> TMDLParseError("Invalid table definition", cur + 1)]
        ELSE LET Result(st) == [cur |-> st.cur, buf |-> st.buf, err |-> st.err, val |-> st.val]
             IN  Result(table_loop(lines, [cur |-> cur + 1, base_indent |-> -1, buf |-> buf,
                                           err |-> <<>>, val |-> EmptyTable(Strip(m.name))]))

RECURSIVE data_access_options_loop(_, _)
data_access_options_loop(lines, st) ==
    IF st.cur >= Len(lines) THEN st
    ELSE LET line == lines[st.cur + 1]
             indent == parser_get_indentation(line)
             c == Strip(line)
         IN  IF c = "" THEN data_access_options_loop(lines, [st EXCEPT !.cur = @ + 1])
             ELSE IF st.base_indent # -1 /\ indent < st.base_indent THEN st
             ELSE data_access_options_loop(lines,
                    [st EXCEPT !.cur = @ + 1,
                               !.base_indent = IF @ = -1 THEN indent ELSE @,
                               !.val = IF c = "legacyRedirects"
                                       THEN [@ EXCEPT !.legacy_redirects = TRUE]
                                       ELSE IF c = "returnErrorValuesAsNull"
                                       THEN [@ EXCEPT !.return_error_values_as_null = TRUE]
                                       ELSE @])

parse_data_access_options(lines, cur) ==
    LET Result(st) == [cur |-> st.cur, val |-> st.val]
    IN  Result(data_access_options_loop(lines,
                   [cur |-> cur + 1, base_indent |-> -1,
                    val |-> [legacy_redirects |-> FALSE, return_error_values_as_null |-> FALSE]]))

ModelProperty(model, c) ==
    IF StartsWith(c, "culture:") THEN [model EXCEPT !.culture = <<parse_property_value(c)>>]
    ELSE IF StartsWith(c, "defaultPowerBIDataSourceVersion:")
    THEN [model EXCEPT !.default_power_bi_data_source_version = <<parse_property_value(c)>>]
    ELSE IF StartsWith(c, "discourageImplicitMeasures")
    THEN [model EXCEPT !.discourage_implicit_measures = TRUE]
    ELSE IF StartsWith(c, "sourceQueryCulture:")
    THEN [model EXCEPT !.source_query_culture = <<parse_property_value(c)>>]
    ELSE IF StartsWith(c, "ref table ")
    THEN [model EXCEPT !.table_refs = Append(@, Strip(ReplaceAll(c, "ref table ", "")))]
    ELSE IF StartsWith(c, "ref cultureInfo ")
    THEN [model EXCEPT !.culture_refs = Append(@, Strip(ReplaceAll(c, "ref cultureInfo ", "")))]
    ELSE model

RECURSIVE model_loop(_, _)
model_loop(lines, st) ==
    IF st.err # <<>> \/ st.cur >= Len(lines) THEN st
    ELSE LET line == lines[st.cur + 1]
             indent == parser_get_indentation(line)
             c == Strip(line)
         IN  IF c = "" THEN model_loop(lines, [st EXCEPT !.cur = @ + 1])
             ELSE IF st.base_indent # -1 /\ indent <= 0 THEN st
             ELSE LET base == IF st.base_indent = -1 THEN indent ELSE st.base_indent
                      plain == StartsWith(c, "culture:")
                               \/ StartsWith(c, "defaultPowerBIDataSourceVersion:")
                               \/ StartsWith(c, "discourageImplicitMeasures")
                               \/ StartsWith(c, "sourceQueryCulture:")
                  IN  IF ~plain /\ StartsWith(c, "annotation ")
                      THEN LET Continue(a) == model_loop(lines,
                                                [st EXCEPT !.cur = a.cur, !.err = a.err, !.base_indent = base,
                                                           !.val.annotations = IF a.err = <<>>
                                                                               THEN Append(@, a.val) ELSE @])
                           IN  Continue(parse_annotation(lines, st.cur))
                      ELSE IF /\ ~plain
                              /\ ~StartsWith(c, "ref table ")
                              /\ ~StartsWith(c, "ref cultureInfo ")
                              /\ StartsWith(c, "dataAccessOptions")
                      THEN LET Continue(o) == model_loop(lines,
                                                [st EXCEPT !.cur = o.cur, !.base_indent = base,
                                                           !.val.data_access_options = <<o.val>>])
                           IN  Continue(parse_data_access_options(lines, st.cur))
                      ELSE model_loop(lines,
                             [st EXCEPT !.cur = @ + 1, !.base_indent = base,
                                        !.val = ModelProperty(@, c)])

parse_model(lines, cur) ==
    LET m == RegexNameRest(Strip(lines[cur + 1]), "model")
        empty == [name |-> Strip(m.name), tables |-> <<>>, relationships |-> <<>>,
                  culture_infos |-> <<>>, annotations |-> <<>>, culture |-> <<>>,
                  default_power_bi_data_source_version |-> <<>>,
                  discourage_implicit_measures |-> FALSE, source_query_culture |-> <<>>,
                  table_refs |-> <<>>, culture_refs |-> <<>>, data_access_options |-> <<>>]
    IN  IF ~m.ok
        THEN [cur |-> cur, val |-> empty,
              err |-> TMDLParseError("Invalid model definition", cur + 1)]
        ELSE LET Result(st) == [cur |-> st.cur, err |-> st.err, val |-> st.val]
             IN  Result(model_loop(lines, [cur |-> cur + 1, base_indent |-> -1,
                                           err |-> <<>>, val |-> empty]))

\* table, column = ref.split(".", 1), when the reference holds a "."
SplitRef(ref) ==
    LET k == FindFrom(ref, ".", 1)
    IN  IF k = 0 THEN <<>> ELSE <<[table |-> Mid(ref, 1, k - 1), column |-> Mid(ref, k + 1, Len(ref))]>>

RelationshipProperty(relationship, c) ==
    IF StartsWith(c, "fromColumn:")
    THEN IF SplitRef(parse_property_value(c)) = <<>> THEN relationship
         ELSE [relationship EXCEPT !.from = SplitRef(parse_property_value(c))]
    ELSE IF StartsWith(c, "toColumn:")
    THEN IF SplitRef(parse_property_value(c)) = <<>> THEN relationship
         ELSE [relationship EXCEPT !.to = SplitRef(parse_property_value(c))]
    ELSE IF StartsWith(c, "joinOnDateBehavior:")
    THEN [relationship EXCEPT !.join_on_date_behavior = <<parse_property_value(c)>>]
    ELSE IF StartsWith(c, "cardinality:")
    THEN [relationship EXCEPT !.cardinality = <<parse_property_value(c)>>]
    ELSE IF StartsWith(c, "crossFilteringBehavior:")
    THEN [relationship EXCEPT !.cross_filtering_behavior = <<parse_property_value(c)>>]
    ELSE IF StartsWith(c, "isActive:")
    THEN [relationship EXCEPT !.is_active = (Lower(parse_property_value(c)) = "true")]
    ELSE relationship

RECURSIVE relationship_loop(_, _)
relationship_loop(lines, st) ==
    IF st.cur >= Len(lines) THEN st
    ELSE LET line == lines[st.cur + 1]
             indent == parser_get_indentation(line)
             c == Strip(line)
         IN  IF c = "" THEN relationship_loop(lines, [st EXCEPT !.cur = @ + 1])
             ELSE IF st.base_indent # -1 /\ indent <= 0 THEN st
             ELSE relationship_loop(lines,
                    [st EXCEPT !.cur = @ + 1,
                               !.base_indent = IF @ = -1 THEN indent ELSE @,
                               !.val = RelationshipProperty(@, c)])

parse_relationship(lines, cur) ==
    LET m == RegexNameRest(Strip(lines[cur + 1]), "relationship")
        empty == [name |-> m.name, is_active |-> TRUE, from |-> <<>>, to |-> <<>>,
                  join_on_date_behavior |-> <<>>, cardinality |-> <<>>,
                  cross_filtering_behavior |-> <<>>]
    IN  IF ~m.ok
        THEN [cur |-> cur, val |-> empty,
              err |-> TMDLParseError("Invalid relationship definition", cur + 1)]
        ELSE LET Result(st) == [cur |-> st.cur, err |-> <<>>, val |-> st.val]
             IN  Result(relationship_loop(lines, [cur |-> cur + 1, base_indent |-> -1,
                                                  val |-> empty]))

\* _parse_json_block: val is the text json.loads is given, "{}" when it
\* raises JSONDecodeError
RECURSIVE json_block_loop(_, _)
json_block_loop(lines, st) ==
    IF st.cur >= Len(lines) THEN st
    ELSE LET line == lines[st.cur + 1]
             indent == parser_get_indentation(line)
         IN  IF Strip(line) = "" THEN json_block_loop(lines, [st EXCEPT !.cur = @ + 1])
             ELSE IF st.base_indent # -1 /\ indent < st.base_indent THEN st
             ELSE json_block_loop(lines,
                    [st EXCEPT !.cur = @ + 1,
                               !.base_indent = IF @ = -1 THEN indent ELSE @,
                               !.val = Append(@, Strip(line))])

parse_json_block(lines, cur) ==
    LET Result(st) ==
            LET json_str == JoinWith(st.val, "\n")
            IN  [cur |-> st.cur, val |-> IF json_str \in ValidJson THEN json_str ELSE "{}"]
    IN  Result(json_block_loop(lines, [cur |-> cur, base_indent |-> -1, val |-> <<>>]))

parse_linguistic_metadata(lines, cur) == parse_json_block(lines, cur + 1)

RECURSIVE culture_info_loop(_, _)
culture_info_loop(lines, st) ==
    IF st.cur >= Len(lines) THEN st
    ELSE LET line == lines[st.cur + 1]
             indent == parser_get_indentation(line)
             c == Strip(line)
         IN  IF c = "" THEN culture_info_loop(lines, [st EXCEPT !.cur = @ + 1])
             ELSE IF st.base_indent # -1 /\ indent <= 0 THEN st
             ELSE LET base == IF st.base_indent = -1 THEN indent ELSE st.base_indent
                  IN  IF StartsWith(c, "linguisticMetadata")
                      THEN LET Continue(j) == culture_info_loop(lines,
                                                [st EXCEPT !.cur = j.cur, !.base_indent = base,
                                                           !.val.linguistic_metadata = <<j.val>>])
                           IN  Continue(parse_linguistic_metadata(lines, st.cur))
                      ELSE culture_info_loop(lines,
                             [st EXCEPT !.cur = @ + 1, !.base_indent = base,
                                        !.val.content_type =
                                            IF StartsWith(c, "contentType:")
                                            THEN <<parse_property_value(c)>> ELSE @])

parse_culture_info(lines, cur) ==
    LET m == RegexNameRest(Strip(lines[cur + 1]), "cultureInfo")
        empty == [name |-> m.name, linguistic_metadata |-> <<>>, content_type |-> <<>>]
    IN  IF ~m.ok
        THEN [cur |-> cur, val |-> empty,
              err |-> TMDLParseError("Invalid culture info definition", cur + 1)]
        ELSE LET Result(st) == [cur |-> st.cur, err |-> <<>>, val |-> st.val]
             IN  Result(culture_info_loop(lines, [cur |-> cur + 1, base_indent |-> -1,
                                                  val |-> empty]))

RECURSIVE database_loop(_, _)
database_loop(lines, st) ==
    IF st.err # <<>> \/ st.cur >= Len(lines) THEN st
    ELSE LET line == lines[st.cur + 1]
             c == Strip(line)
         IN  IF c = "" THEN database_loop(lines, [st EXCEPT !.cur = @ + 1])
             ELSE IF parser_get_indentation(line) <= 0 THEN st
             ELSE IF StartsWith(c, "compatibilityLevel:")
             THEN IF IsIntLiteral(parse_property_value(c))
                  THEN database_loop(lines,
                         [st EXCEPT !.cur = @ + 1,
                                    !.val.compatibility_level = <<parse_property_value(c)>>])
                  ELSE [st EXCEPT !.err = ValueError]
             ELSE database_loop(lines, [st EXCEPT !.cur = @ + 1])

parse_database(lines, cur) ==
    LET Result(st) == [cur |-> st.cur, err |-> st.err, val |-> st.val]
    IN  Result(database_loop(lines, [cur |-> cur + 1, err |-> <<>>,
                                     val |-> [compatibility_level |-> <<>>]]))

EmptyResult ==
    [model |-> <<>>, tables |-> <<>>, relationships |-> <<>>, culture_infos |-> <<>>,
     database |-> <<>>, annotations |-> <<>>, table_refs |-> <<>>, culture_refs |-> <<>>]

\* one iteration of the loop of parse_file on a line that is neither blank
\* nor a comment
file_line(lines, st, line) ==
    IF StartsWith(line, "model ")
    THEN LET Take(r) == [st EXCEPT !.cur = r.cur, !.err = r.err,
                                   !.val.model = IF r.err = <<>> THEN <<r.val>> ELSE @]
         IN  Take(parse_model(lines, st.cur))
    ELSE IF StartsWith(line, "table ")
    THEN LET Take(r) == [st EXCEPT !.cur = r.cur, !.err = r.err, !.buf = r.buf,
                                   !.val.tables =
                                       IF r.err = <<>>
                                       THEN Append(@, IF Description(st.buf) = <<>> THEN r.val
                                                      ELSE [r.val EXCEPT !.description = Description(st.buf)])
                                       ELSE @]
         IN  Take(parse_table(lines, st.cur, <<>>))
    ELSE IF StartsWith(line, "relationship ")
    THEN LET Take(r) == [st EXCEPT !.cur = r.cur, !.err = r.err,
                                   !.val.relationships = IF r.err = <<>> THEN Append(@, r.val) ELSE @]
         IN  Take(parse_relationship(lines, st.cur))
    ELSE IF StartsWith(line, "cultureInfo ")
    THEN LET Take(r) == [st EXCEPT !.cur = r.cur, !.err = r.err,
                                   !.val.culture_infos = IF r.err = <<>> THEN Append(@, r.val) ELSE @]
         IN  Take(parse_culture_info(lines, st.cur))
    ELSE IF StartsWith(line, "database")
    THEN LET Take(r) == [st EXCEPT !.cur = r.cur, !.err = r.err,
                                   !.val.database = IF r.err = <<>> THEN <<r.val>> ELSE @]
         IN  Take(parse_database(lines, st.cur))
    ELSE IF StartsWith(line, "annotation ")
    THEN LET Take(r) == [st EXCEPT !.cur = r.cur, !.err = r.err,
                                   !.val.annotations = IF r.err = <<>> THEN Append(@, r.val) ELSE @]
         IN  Take(parse_annotation(lines, st.cur))
    ELSE IF StartsWith(line, "ref table ")
    THEN [st EXCEPT !.cur = @ + 1,
                    !.val.table_refs = Append(@, Strip(ReplaceAll(line, "ref table ", "")))]
    ELSE IF StartsWith(line, "ref cultureInfo ")
    THEN [st EXCEPT !.cur = @ + 1,
                    !.val.culture_refs = Append(@, Strip(ReplaceAll(line, "ref cultureInfo ", "")))]
    ELSE [st EXCEPT !.buf = <<>>,
                    !.err = TMDLParseError("Unrecognized TMDL syntax: " \o line, st.cur + 1)]

RECURSIVE file_loop(_, _)
file_loop(lines, st) ==
    IF st.err # <<>> \/ st.cur >= Len(lines) THEN st
    ELSE LET line == Strip(lines[st.cur + 1])
         IN  IF line = "" THEN file_loop(lines, [st EXCEPT !.cur = @ + 1])
             ELSE IF StartsWith(line, "///")
             THEN file_loop(lines, [st EXCEPT !.cur = @ + 1,
                                              !.buf = Append(@, Strip(Mid(line, 4, Len(line))))])
             ELSE IF StartsWith(line, "//")
             THEN file_loop(lines, [st EXCEPT !.cur = @ + 1, !.buf = <<>>])
             ELSE file_loop(lines, file_line(lines, st, line))

\* parse_file on the lines of content.split("\n"), by a parser whose
\* description_buffer is buf; the buffer is not reset between files
parse_file(lines, buf) ==
    LET Result(st) == [buf |-> st.buf, err |-> st.err, val |-> st.val]
    IN  Result(file_loop(lines, [cur |-> 0, buf |-> buf, err |-> <<>>, val |-> EmptyResult]))


(***************************************************************************)
(* The loops of parse_file and of _parse_table, one iteration at a time.   *)
(* The position of the parser is a frame: "file" in the loop of            *)
(* parse_file, "table" in the loop of _parse_table, "returned" after       *)
(* parse_file returned its document, "raised" after an error left it.      *)
(***************************************************************************)
NoTable == [cur |-> 0, base_indent |-> -1, buf |-> <<>>, err |-> <<>>, val |-> EmptyTable("")]

\* the call of parse_file: the cursor before the first line
EnterFile(buf) ==
    [frame |-> "file", table |-> NoTable, captured |-> <<>>,
     file |-> [cur |-> 0, buf |-> buf, err |-> <<>>, val |-> EmptyResult]]

\* the body of the loop of parse_file on a line that is not a table line
file_step(lines, st) ==
    LET line == Strip(lines[st.cur + 1])
    IN  IF line = "" THEN [st EXCEPT !.cur = @ + 1]
        ELSE IF StartsWith(line, "///")
        THEN [st EXCEPT !.cur = @ + 1, !.buf = Append(@, Strip(Mid(line, 4, Len(line))))]
        ELSE IF StartsWith(line, "//") THEN [st EXCEPT !.cur = @ + 1, !.buf = <<>>]
        ELSE file_line(lines, st, line)

\* a body that does not move on from a blank line
table_step_staying_on_blank_lines(lines, st) ==
    LET line == lines[st.cur + 1]
    IN  IF Strip(line) = "" THEN st
        ELSE table_line(lines, [st EXCEPT !.base_indent = IF @ = -1
                                                          THEN parser_get_indentation(line)
                                                          ELSE @], Strip(line))

\* the body of the loop of _parse_table on a line that does not end the loop
table_step(lines, st) ==
    LET line == lines[st.cur + 1]
    IN  IF Strip(line) = "" THEN [st EXCEPT !.cur = @ + 1]
        ELSE table_line(lines, [st EXCEPT !.base_indent = IF @ = -1
                                                          THEN parser_get_indentation(line)
                                                          ELSE @], Strip(line))

\* the loop of _parse_table ends: at the end of the lines, or at a line that
\* is not blank at indentation 0 once the base indentation is known
table_ends(lines, st) ==
    \/ st.cur >= Len(lines)
    \/ /\ Strip(lines[st.cur + 1]) # ""
       /\ st.base_indent # -1
       /\ parser_get_indentation(lines[st.cur + 1]) <= 0

\* one iteration of the loop of parse_file: the loop ends and the document
\* is returned, a table line calls _parse_table, which reads the name and
\* moves on to the next line, or the line is handled
file_iteration(lines, p) ==
    LET st == p.file
        line == Strip(lines[st.cur + 1])
        m == RegexNameRest(line, "table")
        Handled(st2) == [p EXCEPT !.file = st2,
                                  !.frame = IF st2.err # <<>> THEN "raised" ELSE "file"]
    IN  IF st.cur >= Len(lines) THEN [p EXCEPT !.frame = "returned"]
        ELSE IF StartsWith(line, "table ")
        THEN IF ~m.ok
             THEN [p EXCEPT !.frame = "raised", !.file.buf = <<>>,
                            !.file.err = TMDLParseError("Invalid table definition", st.cur + 1)]
             ELSE [p EXCEPT !.frame = "table", !.captured = st.buf, !.file.buf = <<>>,
                            !.table = [NoTable EXCEPT !.cur = st.cur + 1,
                                                      !.val = EmptyTable(Strip(m.name))]]
        ELSE Handled(file_step(lines, st))

\* one iteration of the loop of _parse_table: the loop ends and the table is
\* returned to parse_file, or the line is handled
table_iteration(lines, p) ==
    LET Handled(t2) ==
            IF t2.err # <<>>
            THEN [p EXCEPT !.frame = "raised", !.table = t2, !.file.cur = t2.cur,
                           !.file.err = t2.err, !.file.buf = t2.buf]
            ELSE [p EXCEPT !.table = t2]
    IN  IF table_ends(lines, p.table)
        THEN [p EXCEPT !.frame = "file", !.file.cur = p.table.cur, !.file.buf = p.table.buf,
                       !.file.val.tables =
                           Append(@, IF Description(p.captured) = <<>> THEN p.table.val
                                     ELSE [p.table.val EXCEPT
                                               !.description = Description(p.captured)])]
        ELSE Handled(table_step(lines, p.table))

(***************************************************************************)
(* ProjectParser (parsers/project_parser.py)                               *)
(*                                                                         *)
(* A project directory holds Sales.pbip and Sales.SemanticModel, whose     *)
(* definition directory holds model.tmdl and the table files Fact.tmdl and *)
(* Dim.tmdl.  The text of Fact.tmdl is the one the handlers rewrite; the   *)
(* other files are never written.  A routine that can raise returns a      *)
(* record [err, val, buf]: err is <<>> or holds the exception.             *)
(***************************************************************************)
Raise(kind, message) == <<[kind |-> kind, message |-> message]>>

ModelText == <<"model Model", "\tculture: en-US", "\tref table Fact", "\tref table Dim", "">>

DimText ==
    <<"table Dim", "\tlineageTag: t2", "", "\tmeasure DimRows = COUNTROWS(Dim)",
      "\t\tlineageTag: m9", "">>

\* the names of the files of the tables directory, in the order of its listing
TableFileNames == <<"Dim", "Fact">>

TableFile(name, fact) == IF name = "Fact" THEN fact ELSE DimText

\* what is at a path: whether it exists, the stem of the .pbip file in it,
\* and whether it holds a semantic model directory
Directory(path) ==
    CASE path = "proj" -> [exists |-> TRUE, pbip |-> <<"Sales">>, semantic_model |-> TRUE]
      [] path = "proj/Sales.SemanticModel" ->
             [exists |-> TRUE, pbip |-> <<>>, semantic_model |-> FALSE]
      [] path = "report-only" -> [exists |-> TRUE, pbip |-> <<"Report">>, semantic_model |-> FALSE]
      [] path = "empty" -> [exists |-> TRUE, pbip |-> <<>>, semantic_model |-> FALSE]
      [] OTHER -> [exists |-> FALSE, pbip |-> <<>>, semantic_model |-> FALSE]

DataType == {"string", "int64", "double", "boolean", "dateTime", "binary"}

SummarizeBy == {"none", "sum", "count", "min", "max", "average"}

PartitionMode == {"import", "directQuery", "dual", "calculated"}

\* the validation of the Column and Partition models: the enumerated fields
Validates(table_data) ==
    /\ \A k \in 1..Len(table_data.columns) :
          /\ table_data.columns[k].data_type \in DataType
          /\ table_data.columns[k].summarize_by \in SummarizeBy
    /\ \A k \in 1..Len(table_data.partitions) : table_data.partitions[k].mode \in PartitionMode

convert_table_dict_to_model(table_data) ==
    [table_data EXCEPT !.lineage_tag = IF @ = <<>> THEN "" ELSE @[1]]

\* what _load_table returns for the result of parse_file on the text of a
\* table file: the first table of the file, <<>> for None
load_table(parsed) ==
    IF parsed.err = <<>> /\ parsed.val.tables # <<>> THEN <<parsed.val.tables[1]>> ELSE <<>>

\* the files _load_semantic_model reads, one per step: model.tmdl at stage
\* "model", the table files its references name at stage "refs", and the
\* table files no reference loaded at stage "remaining".  The tables are
\* gathered in st.tables; a reference that gave a table is in st.loaded.
RECURSIVE load_files(_, _, _, _)
load_files(names, k, fact, st) ==
    IF st.err # <<>> THEN st
    ELSE IF st.stage # "model" /\ k > Len(names)
    THEN IF st.stage = "refs"
         THEN load_files(SelectSeq(TableFileNames, LAMBDA n : n \notin st.loaded), 1, fact,
                         [st EXCEPT !.stage = "remaining"])
         ELSE st
    ELSE IF st.stage # "model" /\ \A f \in 1..Len(TableFileNames) : TableFileNames[f] # names[k]
    THEN load_files(names, k + 1, fact, st)
    ELSE LET Model(model_data) ==
                 IF model_data.err # <<>>
                 THEN [st EXCEPT !.buf = model_data.buf, !.err = model_data.err]
                 ELSE load_files(IF model_data.val.model = <<>> THEN <<>>
                                 ELSE model_data.val.model[1].table_refs,
                                 1, fact, [st EXCEPT !.buf = model_data.buf, !.stage = "refs"])
             Table(buf, table_data) ==
                 load_files(names, k + 1, fact,
                     IF table_data = <<>> THEN [st EXCEPT !.buf = buf]
                     ELSE IF ~Validates(table_data[1])
                     THEN [st EXCEPT !.buf = buf,
                                     !.err = Raise("ValidationError", "validation error")]
                     ELSE [st EXCEPT !.buf = buf,
                                     !.tables = Append(@, convert_table_dict_to_model(table_data[1])),
                                     !.loaded = IF st.stage = "refs" THEN @ \cup {names[k]} ELSE @])
             Take(parsed) ==
                 IF st.stage = "model" THEN Model(parsed)
                 ELSE Table(parsed.buf, load_table(parsed))
         IN  Take(parse_file(IF st.stage = "model" THEN ModelText
                             ELSE TableFile(names[k], fact), st.buf))

load_semantic_model(fact, buf) ==
    LET Caught(st) ==
            IF st.err # <<>>
            THEN [err |-> Raise("ProjectParseError",
                                "Error loading semantic model: " \o st.err[1].message),
                  val |-> <<>>, buf |-> st.buf]
            ELSE [err |-> <<>>, val |-> <<[tables |-> st.tables, relationships |-> <<>>]>>,
                  buf |-> st.buf]
    IN  Caught(load_files(<<>>, 1, fact,
                          [stage |-> "model", err |-> <<>>, buf |-> buf,
                           tables |-> <<>>, loaded |-> {}]))

load_project(project_path, fact, buf) ==
    IF ~Directory(project_path).exists
    THEN [err |-> Raise("ProjectParseError", "Project path does not exist: " \o project_path),
          val |-> <<>>, buf |-> buf]
    ELSE IF Directory(project_path).pbip = <<>>
    THEN [err |-> Raise("ProjectParseError", "No .pbip file found in " \o project_path),
          val |-> <<>>, buf |-> buf]
    ELSE LET project_info == [version |-> "1.0", artifacts |-> 1]
             Take(loaded) ==
                 [err |-> loaded.err, buf |-> loaded.buf,
                  val |-> IF loaded.err # <<>> THEN <<>>
                          ELSE <<[project_info |-> project_info, semantic_model |-> loaded.val]>>]
         IN  IF Directory(project_path).semantic_model
             THEN Take(load_semantic_model(fact, buf))
             ELSE [err |-> <<>>, buf |-> buf,
                   val |-> <<[project_info |-> project_info, semantic_model |-> <<>>]>>]

(***************************************************************************)
(* BaseOperation (operations/base.py)                                      *)
(*                                                                         *)
(* arguments is a record with every key; a key that the caller left out    *)
(* holds <<>>, a key that was given holds <<value>>.  A handler returns    *)
(* [fact, buf, raised, response]: the text of Fact.tmdl and the parser's   *)
(* buffer after the call, the exception that left the handler if one did,  *)
(* and the response it returned otherwise.  The calls name the table Fact  *)
(* or a table that does not exist, so Fact.tmdl is the one file written.   *)
(*                                                                         *)
(* Every handler starts with self._load_project(arguments["project_path"]) *)
(* and does nothing before it: execute makes that call, and the handler is *)
(* given its result as loaded.                                             *)
(***************************************************************************)
Given(arguments, key) == arguments[key] # <<>>

\* arguments.get(key) is truthy, for a key that holds a string
Truthy(arguments, key) == arguments[key] # <<>> /\ arguments[key][1] # ""

Returned(fact, buf, response) ==
    [fact |-> fact, buf |-> buf, raised |-> <<>>, response |-> <<response>>]

Raised(fact, buf, exception) ==
    [fact |-> fact, buf |-> buf, raised |-> exception, response |-> <<>>]

success_response(data) == [text |-> "{", data |-> <<data>>]

error_response(message) == [text |-> "Error: " \o message, data |-> <<>>]

base_load_project(project_path, fact, buf) ==
    LET Take(project) ==
            IF project.err = <<>> /\ project.val[1].semantic_model = <<>>
            THEN [project EXCEPT !.err = Raise("ValueError", "No semantic model found in project"),
                                 !.val = <<>>]
            ELSE project
    IN  Take(load_project(project_path, fact, buf))

table_file_exists(project_path, table_name) ==
    /\ Directory(project_path).semantic_model
    /\ \E f \in 1..Len(TableFileNames) : TableFileNames[f] = table_name

write_table_file(table_name, fact, updated_content) ==
    IF table_name = "Fact" THEN updated_content ELSE fact

\* a name as the handlers compare it: without regard to case and to the
\* whitespace around it
normalize_element_name(name) == Lower(Strip(name))

\* the index of the first element of elements whose name is name once both
\* are normalized, 0 when there is none
find_by_name(elements, name) ==
    SetMin0({k \in 1..Len(elements) :
                normalize_element_name(elements[k].name) = normalize_element_name(name)})

\* the loop that counts one kind of bracket: "closing" as soon as more have
\* closed than opened, "opening" when some are left open at the end
RECURSIVE count_brackets(_, _, _, _, _)
count_brackets(expression, open, close, k, count) ==
    IF k > Len(expression) THEN (IF count # 0 THEN "opening" ELSE "")
    ELSE LET n == IF Ch(expression, k) = open THEN count + 1
                  ELSE IF Ch(expression, k) = close THEN count - 1 ELSE count
         IN  IF n < 0 THEN "closing" ELSE count_brackets(expression, open, close, k + 1, n)

\* the expression without the matches of "[^"]*", taken from left to right
RECURSIVE expression_without_quotes(_)
expression_without_quotes(expression) ==
    LET i == FindFrom(expression, "\"", 1)
        j == IF i = 0 THEN 0 ELSE FindFrom(expression, "\"", i + 1)
    IN  IF j = 0 THEN expression
        ELSE Mid(expression, 1, i - 1)
             \o expression_without_quotes(Mid(expression, j + 1, Len(expression)))

\* validate_dax_syntax that lets every expression pass
validate_dax_syntax_always_valid(expression) == ""

\* the error message, "" when the expression passes
validate_dax_syntax(expression) ==
    IF Strip(expression) = "" THEN "DAX expression cannot be empty"
    ELSE IF count_brackets(expression, "(", ")", 1, 0) = "closing"
    THEN "Unmatched closing parenthesis"
    ELSE IF count_brackets(expression, "(", ")", 1, 0) = "opening"
    THEN "Unmatched opening parenthesis"
    ELSE IF count_brackets(expression, "[", "]", 1, 0) = "closing"
    THEN "Unmatched closing bracket"
    ELSE IF count_brackets(expression, "[", "]", 1, 0) = "opening"
    THEN "Unmatched opening bracket"
    ELSE IF Contains(expression_without_quotes(expression), "\"") THEN "Unmatched quotes"
    ELSE IF EndsWith(Strip(expression), ",") THEN "Expression cannot end with a comma"
    ELSE IF Contains(expression, "()") THEN "Empty function calls are not allowed"
    ELSE ""

(***************************************************************************)
(* MeasureOperations (operations/measures.py)                              *)
(***************************************************************************)
Tables(project) == project.val[1].semantic_model[1].tables

list_measures(arguments, fact, loaded) ==
    LET Entry(table, k) ==
            [table_name |-> table.name, name |-> table.measures[k].name,
             expression |-> table.measures[k].expression,
             format_string |-> table.measures[k].format_string,
             lineage_tag |-> table.measures[k].lineage_tag,
             is_hidden |-> table.measures[k].is_hidden,
             description |-> table.measures[k].description]
        Listed(tables) ==
            Flatten([t \in 1..Len(tables) |->
                        IF Truthy(arguments, "table_name")
                           /\ tables[t].name # arguments.table_name[1]
                        THEN <<>>
                        ELSE [k \in 1..Len(tables[t].measures) |-> Entry(tables[t], k)]])
        Handle(project) ==
            IF project.err # <<>> THEN Raised(fact, project.buf, project.err)
            ELSE Returned(fact, project.buf,
                          success_response([count |-> Len(Listed(Tables(project))),
                                            measures |-> Listed(Tables(project))]))
    IN  Handle(loaded)

\* the table that holds a measure of that normalized name: its index, or 0
table_with_measure(tables, measure_name) ==
    SetMin0({t \in 1..Len(tables) : find_by_name(tables[t].measures, measure_name) # 0})

add_measure(arguments, fact, loaded, uuid) ==
    LET table_name == arguments.table_name[1]
        measure_name == arguments.name[1]
        expression == arguments.expression[1]
        measure_def ==
            format_measure_definition(measure_name, expression,
                IF Given(arguments, "description") THEN arguments.description[1] ELSE "",
                IF Given(arguments, "format_string") THEN arguments.format_string[1] ELSE "",
                "", uuid)
        Handle(project) ==
            IF project.err # <<>> THEN Raised(fact, project.buf, project.err)
            ELSE IF find_by_name(Tables(project), table_name) = 0
            THEN Returned(fact, project.buf,
                          error_response("Table '" \o table_name \o "' not found"))
            ELSE IF table_with_measure(Tables(project), measure_name) # 0
            THEN Returned(fact, project.buf,
                     error_response("Measure '" \o measure_name \o "' already exists in table '"
                         \o Tables(project)[table_with_measure(Tables(project), measure_name)].name
                         \o "'"))
            ELSE IF validate_dax_syntax(expression) # ""
            THEN Returned(fact, project.buf,
                     error_response("Invalid DAX expression: " \o validate_dax_syntax(expression)))
            ELSE IF ~table_file_exists(arguments.project_path[1], table_name)
            THEN Raised(fact, project.buf, Raise("ValueError", "Table file not found"))
            ELSE Returned(write_table_file(table_name, fact,
                              add_element(TableFile(table_name, fact), "measure", measure_def, 1)),
                          project.buf,
                          success_response([success |-> TRUE, table_name |-> table_name,
                                            measure_name |-> measure_name, action |-> "added"]))
    IN  Handle(loaded)

update_measure(arguments, fact, loaded) ==
    LET table_name == arguments.table_name[1]
        measure_name == arguments.name[1]
        updates ==
            (IF Given(arguments, "expression")
             THEN <<[prop |-> "expression", val |-> Str(arguments.expression[1])]>> ELSE <<>>)
            \o (IF Given(arguments, "format_string")
                THEN <<[prop |-> "format_string", val |-> Str(arguments.format_string[1])]>>
                ELSE <<>>)
        Described(updated_content, actual_measure_name) ==
            IF Given(arguments, "description")
            THEN add_description_comments(updated_content, "measure", actual_measure_name,
                                          arguments.description[1])
            ELSE updated_content
        Write(actual_measure_name) ==
            write_table_file(table_name, fact,
                Described(update_element(TableFile(table_name, fact), "measure",
                                         actual_measure_name, updates),
                          actual_measure_name))
        Update(project, table) ==
            IF find_by_name(table.measures, measure_name) = 0
            THEN Returned(fact, project.buf,
                     error_response("Measure '" \o measure_name \o "' not found in table '"
                                    \o table_name \o "'"))
            ELSE IF ~table_file_exists(arguments.project_path[1], table_name)
            THEN Raised(fact, project.buf, Raise("ValueError", "Table file not found"))
            ELSE IF Given(arguments, "expression")
                    /\ validate_dax_syntax(arguments.expression[1]) # ""
            THEN Returned(fact, project.buf,
                     error_response("Invalid DAX expression: "
                                    \o validate_dax_syntax(arguments.expression[1])))
            ELSE Returned(Write(table.measures[find_by_name(table.measures, measure_name)].name),
                     project.buf,
                     success_response(
                         [success |-> TRUE, table_name |-> table_name,
                          measure_name |-> table.measures[find_by_name(table.measures,
                                                                       measure_name)].name,
                          updated_fields |->
                              [k \in 1..Len(updates) |-> updates[k].prop]
                              \o (IF Given(arguments, "description") THEN <<"description">>
                                  ELSE <<>>)]))
        Handle(project) ==
            IF project.err # <<>> THEN Raised(fact, project.buf, project.err)
            ELSE IF find_by_name(Tables(project), table_name) = 0
            THEN Returned(fact, project.buf,
                          error_response("Table '" \o table_name \o "' not found"))
            ELSE Update(project, Tables(project)[find_by_name(Tables(project), table_name)])
    IN  Handle(loaded)

delete_measure(arguments, fact, loaded) ==
    LET table_name == arguments.table_name[1]
        measure_name == arguments.name[1]
        Delete(project, table) ==
            IF find_by_name(table.measures, measure_name) = 0
            THEN Returned(fact, project.buf,
                     error_response("Measure '" \o measure_name \o "' not found in table '"
                                    \o table_name \o "'"))
            ELSE IF ~table_file_exists(arguments.project_path[1], table_name)
            THEN Raised(fact, project.buf, Raise("ValueError", "Table file not found"))
            ELSE Returned(write_table_file(table_name, fact,
                              delete_element(TableFile(table_name, fact), "measure",
                                  table.measures[find_by_name(table.measures, measure_name)].name)),
                     project.buf,
                     success_response(
                         [success |-> TRUE, table_name |-> table_name,
                          measure_name |-> table.measures[find_by_name(table.measures,
                                                                       measure_name)].name,
                          action |-> "deleted"]))
        Handle(project) ==
            IF project.err # <<>> THEN Raised(fact, project.buf, project.err)
            ELSE IF find_by_name(Tables(project), table_name) = 0
            THEN Returned(fact, project.buf,
                          error_response("Table '" \o table_name \o "' not found"))
            ELSE Delete(project, Tables(project)[find_by_name(Tables(project), table_name)])
    IN  Handle(loaded)

measure_execute(operation, arguments, fact, buf, uuid) ==
    LET Handler(loaded) ==
            CASE operation = "list" -> list_measures(arguments, fact, loaded)
              [] operation = "add" -> add_measure(arguments, fact, loaded, uuid)
              [] operation = "update" -> update_measure(arguments, fact, loaded)
              [] OTHER -> delete_measure(arguments, fact, loaded)
    IN  IF operation \in {"list", "add", "update", "delete"}
        THEN Handler(base_load_project(arguments.project_path[1], fact, buf))
        ELSE Returned(fact, buf, error_response("Unknown operation: " \o operation))

(***************************************************************************)
(* ColumnOperations (operations/columns.py)                                *)
(***************************************************************************)
ColumnEntry(column) ==
    [name |-> column.name, data_type |-> column.data_type,
     summarize_by |-> column.summarize_by, format_string |-> column.format_string,
     is_hidden |-> column.is_hidden, is_calculated |-> column.expression # <<>>,
     expression |-> column.expression, lineage_tag |-> column.lineage_tag,
     description |-> column.description]

list_columns(arguments, fact, loaded) ==
    LET Entries(table) == [k \in 1..Len(table.columns) |-> ColumnEntry(table.columns[k])]
        Summary(table) ==
            [table_name |-> table.name, column_count |-> Len(table.columns),
             calculated_columns |->
                 Cardinality({k \in 1..Len(table.columns) : table.columns[k].expression # <<>>}),
             hidden_columns |->
                 Cardinality({k \in 1..Len(table.columns) : table.columns[k].is_hidden})]
        OfTable(project, table_name) ==
            IF find_by_name(Tables(project), table_name) = 0
            THEN error_response("Table '" \o table_name \o "' not found")
            ELSE success_response(
                     [table_name |-> table_name,
                      count |-> Len(Tables(project)[find_by_name(Tables(project),
                                                                 table_name)].columns),
                      columns |-> Entries(Tables(project)[find_by_name(Tables(project),
                                                                       table_name)])])
        OfAll(tables) ==
            success_response(
                [scope |-> "all_tables", total_tables |-> Len(tables),
                 total_columns |-> Len(Flatten([t \in 1..Len(tables) |-> Entries(tables[t])])),
                 table_summary |-> [t \in 1..Len(tables) |-> Summary(tables[t])],
                 columns |-> Flatten([t \in 1..Len(tables) |->
                                [k \in 1..Len(tables[t].columns) |->
                                    [table_name |-> tables[t].name,
                                     column |-> ColumnEntry(tables[t].columns[k])]]])])
        Handle(project) ==
            IF project.err # <<>> THEN Raised(fact, project.buf, project.err)
            ELSE Returned(fact, project.buf,
                          IF Truthy(arguments, "table_name")
                          THEN OfTable(project, arguments.table_name[1])
                          ELSE OfAll(Tables(project)))
    IN  Handle(loaded)

add_column(arguments, fact, loaded, uuid) ==
    LET table_name == arguments.table_name[1]
        column_name == arguments.name[1]
        data_type == IF Given(arguments, "data_type") THEN arguments.data_type[1] ELSE "string"
        column_def ==
            format_column_definition(column_name, data_type,
                IF Given(arguments, "expression") THEN arguments.expression[1] ELSE "",
                IF Given(arguments, "format_string") THEN arguments.format_string[1] ELSE "",
                IF Given(arguments, "summarize_by") THEN arguments.summarize_by[1] ELSE "",
                Given(arguments, "is_hidden") /\ arguments.is_hidden[1],
                "", uuid)
        Add(project, table) ==
            IF find_by_name(table.columns, column_name) # 0
            THEN Returned(fact, project.buf,
                     error_response("Column '" \o column_name \o "' already exists in table '"
                                    \o table_name \o "'"))
            ELSE IF ~table_file_exists(arguments.project_path[1], table_name)
            THEN Raised(fact, project.buf, Raise("ValueError", "Table file not found"))
            ELSE IF Truthy(arguments, "expression")
                    /\ validate_dax_syntax(arguments.expression[1]) # ""
            THEN Returned(fact, project.buf,
                     error_response("Invalid DAX expression: "
                                    \o validate_dax_syntax(arguments.expression[1])))
            ELSE Returned(write_table_file(table_name, fact,
                              add_element(TableFile(table_name, fact), "column", column_def, 1)),
                          project.buf,
                          success_response([success |-> TRUE, table_name |-> table_name,
                                            column_name |-> column_name,
                                            data_type |-> data_type, action |-> "added"]))
        Handle(project) ==
            IF project.err # <<>> THEN Raised(fact, project.buf, project.err)
            ELSE IF find_by_name(Tables(project), table_name) = 0
            THEN Returned(fact, project.buf,
                          error_response("Table '" \o table_name \o "' not found"))
            ELSE Add(project, Tables(project)[find_by_name(Tables(project), table_name)])
    IN  Handle(loaded)

update_column(arguments, fact, loaded) ==
    LET table_name == arguments.table_name[1]
        column_name == arguments.name[1]
        Entry(key, val) == IF Given(arguments, key) THEN <<[prop |-> key, val |-> val]>> ELSE <<>>
        Updates(is_calculated) ==
            Entry("data_type", Str(arguments.data_type[1]))
            \o Entry("format_string", Str(arguments.format_string[1]))
            \o Entry("summarize_by", Str(arguments.summarize_by[1]))
            \o Entry("is_hidden", Bool(arguments.is_hidden[1]))
            \o (IF is_calculated THEN Entry("expression", Str(arguments.expression[1]))
                ELSE <<>>)
        Update(project, column) ==
            IF ~table_file_exists(arguments.project_path[1], table_name)
            THEN Raised(fact, project.buf, Raise("ValueError", "Table file not found"))
            ELSE IF Given(arguments, "expression") /\ column.expression = <<>>
            THEN Returned(fact, project.buf,
                     error_response("Cannot add expression to regular column '" \o column_name
                                    \o "'. Create a new calculated column instead."))
            ELSE IF Given(arguments, "expression") /\ arguments.expression[1] = ""
            THEN Returned(fact, project.buf,
                     error_response("Cannot remove expression from calculated column '"
                         \o column_name
                         \o "'. Delete the column and create a regular column instead."))
            ELSE Returned(write_table_file(table_name, fact,
                              update_element(TableFile(table_name, fact), "column", column.name,
                                             Updates(column.expression # <<>>))),
                     project.buf,
                     success_response(
                         [success |-> TRUE, table_name |-> table_name,
                          column_name |-> column.name,
                          updated_fields |->
                              [k \in 1..Len(Updates(column.expression # <<>>)) |->
                                  Updates(column.expression # <<>>)[k].prop]]))
        InTable(project, table) ==
            IF find_by_name(table.columns, column_name) = 0
            THEN Returned(fact, project.buf,
                     error_response("Column '" \o column_name \o "' not found in table '"
                                    \o table_name \o "'"))
            ELSE Update(project, table.columns[find_by_name(table.columns, column_name)])
        Handle(project) ==
            IF project.err # <<>> THEN Raised(fact, project.buf, project.err)
            ELSE IF find_by_name(Tables(project), table_name) = 0
            THEN Returned(fact, project.buf,
                          error_response("Table '" \o table_name \o "' not found"))
            ELSE InTable(project, Tables(project)[find_by_name(Tables(project), table_name)])
    IN  Handle(loaded)

delete_column(arguments, fact, loaded) ==
    LET table_name == arguments.table_name[1]
        column_name == arguments.name[1]
        Delete(project, table) ==
            IF find_by_name(table.columns, column_name) = 0
            THEN Returned(fact, project.buf,
                     error_response("Column '" \o column_name \o "' not found in table '"
                                    \o table_name \o "'"))
            ELSE IF ~table_file_exists(arguments.project_path[1], table_name)
            THEN Raised(fact, project.buf, Raise("ValueError", "Table file not found"))
            ELSE Returned(write_table_file(table_name, fact,
                              delete_element(TableFile(table_name, fact), "column",
                                  table.columns[find_by_name(table.columns, column_name)].name)),
                     project.buf,
                     success_response(
                         [success |-> TRUE, table_name |-> table_name,
                          column_name |-> table.columns[find_by_name(table.columns,
                                                                     column_name)].name,
                          action |-> "deleted"]))
        Handle(project) ==
            IF project.err # <<>> THEN Raised(fact, project.buf, project.err)
            ELSE IF find_by_name(Tables(project), table_name) = 0
            THEN Returned(fact, project.buf,
                          error_response("Table '" \o table_name \o "' not found"))
            ELSE Delete(project, Tables(project)[find_by_name(Tables(project), table_name)])
    IN  Handle(loaded)

column_execute(operation, arguments, fact, buf, uuid) ==
    LET Handler(loaded) ==
            CASE operation = "list" -> list_columns(arguments, fact, loaded)
              [] operation = "add" -> add_column(arguments, fact, loaded, uuid)
              [] operation = "update" -> update_column(arguments, fact, loaded)
              [] OTHER -> delete_column(arguments, fact, loaded)
    IN  IF operation \in {"list", "add", "update", "delete"}
        THEN Handler(base_load_project(arguments.project_path[1], fact, buf))
        ELSE Returned(fact, buf, error_response("Unknown operation: " \o operation))

(***************************************************************************)
(* TableOperations (operations/tables.py) and RelationshipOperations       *)
(* (operations/relationships.py)                                           *)
(***************************************************************************)
list_tables(arguments, fact, loaded) ==
    LET Entry(table) ==
            [name |-> table.name, column_count |-> Len(table.columns),
             measure_count |-> Len(table.measures), partition_count |-> Len(table.partitions),
             hierarchy_count |-> Len(table.hierarchies), is_hidden |-> table.is_hidden,
             is_private |-> table.is_private, lineage_tag |-> table.lineage_tag]
        Handle(project) ==
            IF project.err # <<>> THEN Raised(fact, project.buf, project.err)
            ELSE Returned(fact, project.buf,
                     success_response(
                         [count |-> Len(Tables(project)),
                          tables |-> [t \in 1..Len(Tables(project)) |->
                                         Entry(Tables(project)[t])]]))
    IN  Handle(loaded)

\* the details of the table: its own fields and the names of its columns,
\* measures, partitions and hierarchies; the files hold no relationship
get_table_details(arguments, fact, loaded) ==
    LET table_name == arguments.table_name[1]
        Names(elements) == [k \in 1..Len(elements) |-> elements[k].name]
        Details(table) ==
            [name |-> table.name, lineage_tag |-> table.lineage_tag,
             is_hidden |-> table.is_hidden, is_private |-> table.is_private,
             columns |-> Names(table.columns), measures |-> Names(table.measures),
             partitions |-> Names(table.partitions), hierarchies |-> Names(table.hierarchies),
             relationships |-> [from_this_table |-> <<>>, to_this_table |-> <<>>]]
        Handle(project) ==
            IF project.err # <<>> THEN Raised(fact, project.buf, project.err)
            ELSE IF find_by_name(Tables(project), table_name) = 0
            THEN Returned(fact, project.buf,
                          error_response("Table '" \o table_name \o "' not found"))
            ELSE Returned(fact, project.buf,
                     success_response(Details(Tables(project)[find_by_name(Tables(project),
                                                                           table_name)])))
    IN  Handle(loaded)

\* the third comparison of execute reads OperationType.GET_MODEL_DETAILS,
\* an attribute the class in base.py does not have
table_execute(operation, arguments, fact, buf) ==
    LET Handler(loaded) ==
            IF operation = "list" THEN list_tables(arguments, fact, loaded)
            ELSE get_table_details(arguments, fact, loaded)
    IN  IF operation \in {"list", "get"}
        THEN Handler(base_load_project(arguments.project_path[1], fact, buf))
        ELSE Raised(fact, buf,
                    Raise("AttributeError",
                          "type object 'OperationType' has no attribute 'GET_MODEL_DETAILS'"))

list_relationships(arguments, fact, loaded) ==
    LET Handle(project) ==
            IF project.err # <<>> THEN Raised(fact, project.buf, project.err)
            ELSE Returned(fact, project.buf,
                     success_response(
                         [count |-> Len(project.val[1].semantic_model[1].relationships),
                          active_count |-> 0, inactive_count |-> 0,
                          relationships |-> project.val[1].semantic_model[1].relationships]))
    IN  Handle(loaded)

relationship_execute(operation, arguments, fact, buf) ==
    IF operation = "list"
    THEN list_relationships(arguments, fact,
                            base_load_project(arguments.project_path[1], fact, buf))
    ELSE Returned(fact, buf, error_response("Unknown operation: " \o operation))

(***************************************************************************)
(* Calls of the writer and of the parser on the text of one TMDL file      *)
(*                                                                         *)
(* content is the text of the file, as the lines of its split("\n"): a     *)
(* writer call is given the text and returns the text of the next call.    *)
(* description_buffer is the buffer of the TMDLParser object, which serves *)
(* every parse_file call.  log holds the calls made so far, each with the  *)
(* text it was given.                                                      *)
(***************************************************************************)
VARIABLES content, log, description_buffer

vars == <<content, log, description_buffer>>

MaxBlocks == 2

MaxOps == 2

Header == <<"table Fact", "\tlineageTag: t1">>

Blocks ==
    << <<"\tcolumn Revenue", "\t\tdataType: double", "\t\tlineageTag: c1",
         "\t\tsummarizeBy: sum">>,
       <<"\tmeasure Total =SUM(Fact[Revenue])", "\t\tlineageTag: m1",
         "\t\tformatString: \"0.0\"">>,
       <<"\t/// Count of rows.", "\t/// Excludes blanks",
         "\tmeasure 'Row Count' = COUNTROWS(Fact)", "\t\tlineageTag: m2">>,
       <<"\tpartition p = m", "\t\tmode: import", "\t\tsource = x">> >>

\* the blocks of the files that are parsed: also an element without property
\* lines, a measure whose name of two words is not quoted, and a column and
\* a measure whose expression starts on the line after the "="
ParsedBlocks ==
    Blocks \o << <<"\tcolumn Id">>, <<"\tmeasure Bad Name = SUM(Fact[X])">>,
                 <<"\tcolumn Ratio =", "\t\t\tDIVIDE(1, 2)", "\t\tdataType: double">>,
                 <<"\tmeasure Big =", "\t\t\tSUM(Fact[X])", "\t\tlineageTag: m7">> >>

TopBlocks ==
    << <<"model Model", "\tculture: en-US", "\tref table Fact">>,
       <<"/// Dimension", "table Dim">>,
       <<"garbage line">>,
       <<"relationship r1", "\tfromColumn: Fact.Id", "\ttoColumn: Dim.Id">>,
       <<"database", "\tcompatibilityLevel: 1567", "annotation PBI_Version = 1">>,
       <<"ref table Fact", "ref cultureInfo en-US", "cultureInfo en-US",
         "\tcontentType: json">> >>

Arrangements(n) ==
    UNION {{a \in [1..m -> 1..n] : \A i, j \in 1..m : a[i] = a[j] => i = j} :
           m \in 0..MaxBlocks}

\* a file: the header, then the chosen blocks each after one blank line,
\* with or without the newline at the end of the file
FileText(header, blocks, a, newline) ==
    header \o Flatten([k \in 1..Len(a) |-> <<"">> \o blocks[a[k]]])
           \o (IF newline THEN <<"">> ELSE <<>>)

TableTexts == {FileText(Header, Blocks, a, nl) : a \in Arrangements(Len(Blocks)), nl \in BOOLEAN}

ParsedTableTexts ==
    {FileText(Header, ParsedBlocks, a, nl) : a \in Arrangements(Len(ParsedBlocks)), nl \in BOOLEAN}

\* a top-level file starts with its first block
TopLevelTexts ==
    {AsContent(SubSeq(FileText(<<>>, TopBlocks, a, nl), 2, Len(FileText(<<>>, TopBlocks, a, nl)))) :
        a \in Arrangements(Len(TopBlocks)), nl \in BOOLEAN}

\* the element a delete or an update is asked for: its keyword and its name
DeleteTargets == {<<"column", "Notes">>, <<"measure", "Row Count">>, <<"measure", "Margin">>}

UpdateTargets == {<<"measure", "Total">>, <<"measure", "Margin">>}

Uuids == {"u-1"}

ColumnSpecs ==
    {[name |-> "Notes", data_type |-> "string", expression |-> "", format_string |-> "",
      summarize_by |-> "", is_hidden |-> TRUE, lineage_tag |-> ""]}

\* the column specs whose definitions are parsed back
ParsedColumnSpecs ==
    ColumnSpecs \cup
    {[name |-> "Unit Price", data_type |-> "decimal", expression |-> "",
      format_string |-> "0.00", summarize_by |-> "sum", is_hidden |-> FALSE,
      lineage_tag |-> "c9"],
     [name |-> "Code", data_type |-> "int64", expression |-> "", format_string |-> "",
      summarize_by |-> "", is_hidden |-> FALSE, lineage_tag |-> ""]}

MeasureSpecs ==
    {[name |-> "Margin", expression |-> "SUM(Fact[Revenue])",
      description |-> "Net margin. After tax", format_string |-> "", lineage_tag |-> ""]}

UpdateSets ==
    { <<[prop |-> "format_string", val |-> Str("#,0")]>>,
      <<[prop |-> "expression", val |-> Str("2 * 3")],
        [prop |-> "format_string", val |-> Str("#,0")]>> }

Init ==
    /\ content \in TableTexts
    /\ log = <<>>
    /\ description_buffer = <<>>

Call(op, element_type, element_name) ==
    [op |-> op, element_type |-> element_type, element_name |-> element_name,
     element_def |-> "", updates |-> <<>>, spec |-> <<>>, before |-> content,
     outcome |-> <<>>]

\* add_element of the definition format_column_definition makes of a spec
AddColumnDefinition(c, uuid) ==
    LET column_def == format_column_definition(c.name, c.data_type, c.expression,
                          c.format_string, c.summarize_by, c.is_hidden, c.lineage_tag, uuid)
    IN  /\ Len(log) < MaxOps
        /\ content' = add_element(content, "column", column_def, 1)
        /\ log' = Append(log, [Call("add", "column", c.name) EXCEPT
                                   !.element_def = column_def, !.spec = <<c>>])
        /\ UNCHANGED description_buffer

\* add_element of the definition format_measure_definition makes of a spec
AddMeasureDefinition(m, uuid) ==
    LET measure_def == format_measure_definition(m.name, m.expression, m.description,
                           m.format_string, m.lineage_tag, uuid)
    IN  /\ Len(log) < MaxOps
        /\ content' = add_element(content, "measure", measure_def, 1)
        /\ log' = Append(log, [Call("add", "measure", m.name) EXCEPT
                                   !.element_def = measure_def, !.spec = <<m>>])
        /\ UNCHANGED description_buffer

UpdateElement(element_type, element_name, updates) ==
    /\ Len(log) < MaxOps
    /\ content' = update_element(content, element_type, element_name, updates)
    /\ log' = Append(log, [Call("update", element_type, element_name) EXCEPT
                               !.updates = updates])
    /\ UNCHANGED description_buffer

DeleteElement(element_type, element_name) ==
    /\ Len(log) < MaxOps
    /\ content' = delete_element(content, element_type, element_name)
    /\ log' = Append(log, Call("delete", element_type, element_name))
    /\ UNCHANGED description_buffer

\* TMDLParser.parse_file on the text of the file: the outcome is the error
\* raised, or the document returned
ParseFile ==
    LET r == parse_file(content, description_buffer)
    IN  /\ Len(log) < MaxOps
        /\ description_buffer' = r.buf
        /\ log' = Append(log, [Call("parse", "", "") EXCEPT
                                   !.outcome = <<[err |-> r.err,
                                                  val |-> IF r.err = <<>> THEN <<r.val>>
                                                          ELSE <<>>]>>])
        /\ UNCHANGED content

Next ==
    \/ \E c \in ColumnSpecs, uuid \in Uuids : AddColumnDefinition(c, uuid)
    \/ \E m \in MeasureSpecs, uuid \in Uuids : AddMeasureDefinition(m, uuid)
    \/ \E t \in UpdateTargets, u \in UpdateSets : UpdateElement(t[1], t[2], u)
    \/ \E t \in DeleteTargets : DeleteElement(t[1], t[2])

Spec == Init /\ [][Next]_vars

\* the files the parser is given: table files and top-level files
ParseInit ==
    /\ content \in ParsedTableTexts \cup TopLevelTexts
    /\ log = <<>>
    /\ description_buffer = <<>>

ParseNext ==
    \/ \E c \in ParsedColumnSpecs, uuid \in Uuids : AddColumnDefinition(c, uuid)
    \/ ParseFile

ParseSpec == ParseInit /\ [][ParseNext]_vars

(***************************************************************************)
(* The formatter on its own: one call of format_column_definition per      *)
(* behaviour, the text it returns held line by line in content             *)
(***************************************************************************)
FormatColumnSpecs ==
    [name : {"Notes", "Unit Price"}, data_type : {"string", "int64"},
     expression : {"", "[Qty] * 2"}, format_string : {"", "0.00"},
     summarize_by : {"", "sum"}, is_hidden : BOOLEAN, lineage_tag : {"", "c9"}]

FormatInit ==
    /\ content = <<>>
    /\ log = <<>>
    /\ description_buffer = <<>>

FormatColumnDefinition(c, uuid) ==
    LET column_def == format_column_definition(c.name, c.data_type, c.expression,
                          c.format_string, c.summarize_by, c.is_hidden, c.lineage_tag, uuid)
    IN  /\ log = <<>>
        /\ content' = SplitOn(column_def, "\n")
        /\ log' = Append(log, [Call("format", "column", c.name) EXCEPT
                                   !.element_def = column_def, !.spec = <<c>>,
                                   !.outcome = <<uuid>>])
        /\ UNCHANGED description_buffer

FormatNext == \E c \in FormatColumnSpecs, uuid \in Uuids : FormatColumnDefinition(c, uuid)

FormatSpec == FormatInit /\ [][FormatNext]_vars

(***************************************************************************)
(* Calls of the handlers on the project: content is the text of Fact.tmdl  *)
(***************************************************************************)
OpsBlocks ==
    << <<"\tcolumn Revenue", "\t\tdataType: double", "\t\tlineageTag: c1",
         "\t\tsummarizeBy: sum">>,
       <<"\tmeasure Total = SUM(Fact[Revenue])", "\t\tlineageTag: m1",
         "\t\tformatString: \"0.0\"">>,
       <<"\tcolumn Ratio = DIVIDE(1, 2)", "\t\tdataType: double", "\t\tlineageTag: c3">>,
       <<"\t/// Count of rows.", "\tmeasure 'Row Count' = COUNTROWS(Fact)",
         "\t\tlineageTag: m2">> >>

OpsTexts ==
    {FileText(Header, OpsBlocks, a, TRUE) : a \in {<<1, 3, 2>>, <<1, 2, 4>>, <<3>>, <<1>>}}

Args(project_path, table_name, name) ==
    [project_path |-> <<project_path>>, table_name |-> table_name, name |-> name,
     expression |-> <<>>, format_string |-> <<>>, description |-> <<>>,
     data_type |-> <<>>, summarize_by |-> <<>>, is_hidden |-> <<>>]

OnFact(name) == Args("proj", <<"Fact">>, <<name>>)

MeasureCalls ==
    {[operation |-> "list", arguments |-> Args("proj", <<"Fact">>, <<>>)],
     [operation |-> "add",
      arguments |-> [OnFact("Total") EXCEPT !.expression = <<"1 + 2">>]],
     [operation |-> "add",
      arguments |-> [OnFact("Row Count") EXCEPT !.expression = <<"COUNTROWS(Fact)">>,
                                                !.format_string = <<"#,0">>]],
     [operation |-> "add",
      arguments |-> [OnFact("Margin") EXCEPT !.expression = <<"SUM(Fact[Revenue]">>]],
     [operation |-> "add",
      arguments |-> [OnFact("DimRows") EXCEPT !.expression = <<"1">>]],
     [operation |-> "update",
      arguments |-> [OnFact("Total") EXCEPT !.expression = <<"SUM(">>]],
     [operation |-> "update",
      arguments |-> [OnFact("total") EXCEPT !.expression = <<"2 * 3">>,
                                            !.description = <<"Twice three.">>]],
     [operation |-> "delete", arguments |-> OnFact("Row Count")],
     [operation |-> "delete", arguments |-> OnFact("Total")]}

ColumnCalls ==
    {[operation |-> "list", arguments |-> Args("proj", <<"Fact">>, <<>>)],
     [operation |-> "add",
      arguments |-> [OnFact("Notes") EXCEPT !.data_type = <<"string">>, !.is_hidden = <<TRUE>>]],
     [operation |-> "add",
      arguments |-> [OnFact("revenue") EXCEPT !.data_type = <<"double">>]],
     [operation |-> "add",
      arguments |-> [OnFact("Calc") EXCEPT !.data_type = <<"double">>,
                                           !.expression = <<"[Revenue] * 2">>]],
     [operation |-> "add",
      arguments |-> [OnFact("Calc") EXCEPT !.data_type = <<"double">>,
                                           !.expression = <<"[Revenue] * (2">>]],
     [operation |-> "update",
      arguments |-> [OnFact("Revenue") EXCEPT !.expression = <<"1">>]],
     [operation |-> "update",
      arguments |-> [OnFact("Ratio") EXCEPT !.expression = <<"">>]],
     [operation |-> "update",
      arguments |-> [OnFact("Ratio") EXCEPT !.expression = <<" ">>]],
     [operation |-> "update",
      arguments |-> [OnFact("Ratio") EXCEPT !.expression = <<"DIVIDE(3, 4)">>]],
     [operation |-> "update",
      arguments |-> [OnFact("Revenue") EXCEPT !.is_hidden = <<TRUE>>,
                                              !.format_string = <<"0.0">>]],
     [operation |-> "delete", arguments |-> OnFact("Notes")]}

\* calls that cannot be served: an operation the handler does not have, a
\* path that does not exist, a project without a semantic model; and a list
HandlerCalls ==
    {[operation |-> "rename", arguments |-> OnFact("Total")],
     [operation |-> "list", arguments |-> Args("missing", <<"Fact">>, <<>>)],
     [operation |-> "list", arguments |-> Args("report-only", <<"Fact">>, <<>>)],
     [operation |-> "list", arguments |-> Args("proj", <<"Fact">>, <<>>)],
     [operation |-> "get", arguments |-> Args("proj", <<"Fact">>, <<>>)]}

ProjectPaths == {"proj", "proj/Sales.SemanticModel", "report-only", "empty", "missing"}

OpsInit ==
    /\ content \in OpsTexts
    /\ log = <<>>
    /\ description_buffer = <<>>

\* what a handler did becomes the state: the file, the buffer, the record
Executed(handler, call, r) ==
    /\ content' = r.fact
    /\ description_buffer' = r.buf
    /\ log' = Append(log, [Call(call.operation, handler,
                                IF call.arguments.name = <<>> THEN ""
                                ELSE call.arguments.name[1])
                             EXCEPT !.spec = <<call.arguments>>,
                                    !.outcome = <<[raised |-> r.raised,
                                                   response |-> r.response]>>])

MeasureExecute(call, uuid) ==
    /\ Len(log) < MaxOps
    /\ Executed("measure", call,
                measure_execute(call.operation, call.arguments, content, description_buffer, uuid))

ColumnExecute(call, uuid) ==
    /\ Len(log) < MaxOps
    /\ Executed("column", call,
                column_execute(call.operation, call.arguments, content, description_buffer, uuid))

TableExecute(call) ==
    /\ Len(log) < MaxOps
    /\ Executed("table", call,
                table_execute(call.operation, call.arguments, content, description_buffer))

RelationshipExecute(call) ==
    /\ Len(log) < MaxOps
    /\ Executed("relationship", call,
                relationship_execute(call.operation, call.arguments, content, description_buffer))

LoadProject(project_path) ==
    LET Loaded(project) ==
            /\ description_buffer' = project.buf
            /\ log' = Append(log, [Call("load", "project", project_path) EXCEPT
                                       !.outcome = <<[err |-> project.err, val |-> project.val]>>])
    IN  /\ Len(log) < MaxOps
        /\ Loaded(load_project(project_path, content, description_buffer))
        /\ UNCHANGED content

\* expressions for the structural check: one that passes, then a blank one,
\* an open parenthesis, a closing bracket, an open quote, a trailing comma
\* and an empty call
DaxExpressions == {"SUM(Fact[Revenue])", " ", "SUM(", "a]", "\"a", "1,", "f()"}

DaxMeasureCalls ==
    {[operation |-> "add", arguments |-> [OnFact("Margin") EXCEPT !.expression = <<e>>]] :
        e \in DaxExpressions}
    \cup {[operation |-> "update", arguments |-> [OnFact("Total") EXCEPT !.expression = <<e>>]] :
             e \in {"2 * 3", "SUM(", ""}}

DaxColumnCalls ==
    {[operation |-> "add",
      arguments |-> [OnFact("Calc") EXCEPT !.data_type = <<"double">>, !.expression = <<e>>]] :
        e \in {"[Revenue] * 2", "[Revenue] * (2", "f()"}}

DaxNext ==
    \/ \E call \in DaxMeasureCalls, uuid \in Uuids : MeasureExecute(call, uuid)
    \/ \E call \in DaxColumnCalls, uuid \in Uuids : ColumnExecute(call, uuid)

DaxSpec == OpsInit /\ [][DaxNext]_vars

MeasureNext == \E call \in MeasureCalls, uuid \in Uuids : MeasureExecute(call, uuid)

MeasureOpsSpec == OpsInit /\ [][MeasureNext]_vars

ColumnNext == \E call \in ColumnCalls, uuid \in Uuids : ColumnExecute(call, uuid)

ColumnOpsSpec == OpsInit /\ [][ColumnNext]_vars

HandlerNext ==
    \/ \E call \in HandlerCalls, uuid \in Uuids : MeasureExecute(call, uuid)
    \/ \E call \in HandlerCalls, uuid \in Uuids : ColumnExecute(call, uuid)
    \/ \E call \in HandlerCalls : TableExecute(call)
    \/ \E call \in HandlerCalls : RelationshipExecute(call)

HandlerSpec == OpsInit /\ [][HandlerNext]_vars

LoadNext == \E project_path \in ProjectPaths : LoadProject(project_path)

LoadSpec == OpsInit /\ [][LoadNext]_vars

(***************************************************************************)
(* One TMDLParser serving one file after another, as the ProjectParser     *)
(* uses it: content is the text of the file parsed last                    *)
(***************************************************************************)
DescriptionBlocks ==
    << <<"\t/// Net amount.", "\t/// In euros", "\tcolumn Amount", "\t\tdataType: double">>,
       <<"\t/// Stray note", "\tisHidden">>,
       <<"\t/// About the partition", "\tpartition p = m", "\t\tmode: import">>,
       <<"\tmeasure Total = 1", "\t\tlineageTag: m1">>,
       <<"\tcolumn Id", "\t\tdataType: int64">>,
       <<"\t/// Trailing remark">>,
       <<"\t/// About the hierarchy", "\thierarchy H", "\t\tlevel L", "\t\t\tcolumn: Id">>,
       <<"\t/// About the annotation", "\tannotation A = 1">>,
       <<"\t/// Row total", "", "\tmeasure Rows = 2">> >>

\* table files, then top-level files: a described model before a table, a
\* described table, a described database whose level is not a number, and a
\* described line that is not TMDL
DescriptionTexts ==
    {FileText(Header, DescriptionBlocks, a, TRUE) :
        a \in {<<1>>, <<1, 4>>, <<2, 4>>, <<2, 5>>, <<3, 5>>, <<7, 4>>, <<8, 5>>,
               <<4, 6>>, <<5, 6>>, <<9>>, <<4, 5>>}}
    \cup {<<"/// About the model", "model Model", "\tculture: en-US", "", "table Dim",
            "\tlineageTag: t2", "">>,
          <<"/// Dimension table", "table Dim", "\tlineageTag: t2", "">>,
          <<"/// About the database", "database", "\tcompatibilityLevel: high", "">>,
          <<"/// A note", "garbage line", "">>}

DescriptionInit ==
    /\ content \in DescriptionTexts
    /\ log = <<>>
    /\ description_buffer = <<>>

\* the parser is given the text of the next file; the call is recorded with
\* the buffer the parser held when it was made
ParseNextFile(text) ==
    LET Take(r) ==
            /\ description_buffer' = r.buf
            /\ log' = Append(log, [Call("parse", "", "") EXCEPT
                                       !.before = text,
                                       !.spec = <<[description_buffer |-> description_buffer]>>,
                                       !.outcome = <<[err |-> r.err,
                                                      val |-> IF r.err = <<>> THEN <<r.val>>
                                                              ELSE <<>>]>>])
    IN  /\ Len(log) < MaxOps
        /\ content' = text
        /\ Take(parse_file(text, description_buffer))

DescriptionNext == \E text \in DescriptionTexts : ParseNextFile(text)

DescriptionSpec == DescriptionInit /\ [][DescriptionNext]_vars


\* the blocks of the files that are updated: a hidden column, a column of one
\* property, a measure and a calculated column of one line, a measure whose
\* expression starts on the line after the "=", and one whose expression
\* runs on below its first line
UpdateBlocks ==
    << <<"\tcolumn Revenue", "\t\tdataType: double", "\t\tisHidden", "\t\tsummarizeBy: sum">>,
       <<"\tcolumn Id", "\t\tdataType: int64">>,
       <<"\tmeasure Total = SUM(Fact[Revenue])", "\t\tformatString: \"0.0\"",
         "\t\tlineageTag: m1">>,
       <<"\tmeasure Big =", "\t\t\tSUM(Fact[X])", "\t\tlineageTag: m7">>,
       <<"\tcolumn Ratio = DIVIDE(1, 2)", "\t\tdataType: double">>,
       <<"\tmeasure Wide = SUM(", "\t\t\tFact[X])", "\t\tlineageTag: m8">> >>

UpdateTexts ==
    {FileText(Header, UpdateBlocks, a, TRUE) :
        a \in {<<1, 3>>, <<3, 2>>, <<2, 5>>, <<4, 1>>, <<5, 6>>, <<6, 4>>}}
    \cup {FileText(Header, UpdateBlocks, <<3, 2>>, FALSE)}

\* the updates asked for: the keyword and name of the element, and the
\* properties in the order of the caller's dict
Updates ==
    { <<"column", "Revenue", <<[prop |-> "is_hidden", val |-> Bool(TRUE)]>> >>,
      <<"column", "Revenue", <<[prop |-> "is_hidden", val |-> Bool(FALSE)]>> >>,
      <<"column", "Id", <<[prop |-> "is_hidden", val |-> Bool(TRUE)]>> >>,
      <<"column", "Id", <<[prop |-> "data_type", val |-> Str("string")],
                          [prop |-> "format_string", val |-> Str("0")]>> >>,
      <<"measure", "Total", <<[prop |-> "format_string", val |-> Str("#,0")]>> >>,
      <<"measure", "Total", <<[prop |-> "expression", val |-> Str("2 * 3")]>> >>,
      <<"measure", "Big", <<[prop |-> "expression", val |-> Str("2 * 3")]>> >>,
      <<"column", "Ratio", <<[prop |-> "expression", val |-> Str("[Id] + 1")]>> >>,
      <<"measure", "Wide", <<[prop |-> "expression", val |-> Str("2 * 3")]>> >> }

UpdateInit ==
    /\ content \in UpdateTexts
    /\ log = <<>>
    /\ description_buffer = <<>>

UpdateNext ==
    \/ \E u \in Updates : UpdateElement(u[1], u[2], u[3])
    \/ ParseFile

UpdateSpec == UpdateInit /\ [][UpdateNext]_vars


\* the value texts of annotations: quoted texts, JSON texts that decode and
\* that do not, booleans in several letter cases, numbers with and without
\* a decimal point, and texts that are none of these
AnnotationCores ==
    {"\"abc\"", "'x y'", "\"\"", "\"", "'1.5'", "\"true\"", "\"{}\"", "'a\"",
     "{}", "[]", "[1, 2]", "{\"a\": 1}", "{bad", "[1, 2", "[Measures].[Total]", "{\"a\": 1",
     "true", "false", "TRUE", "False", "tRuE", "truthy", "yes",
     "1.5", "-2.25", "+0.5", ".5", "5.", "1.x", "1.2.3", ".", "en.US",
     "0", "42", "-4", "+7", "007", "12a", "-", "", "abc", "1 2", "0x10", "1e5"}

AnnotationValues == {pad[1] \o core \o pad[2] : core \in AnnotationCores,
                                               pad \in {<<"", "">>, <<" ", "">>, <<"", "\t ">>}}

AnnotationInit ==
    /\ content \in {<<value_str>> : value_str \in AnnotationValues}
    /\ log = <<>>
    /\ description_buffer = <<>>

\* _parse_annotation_value of the value text
ParseAnnotationValue ==
    /\ log = <<>>
    /\ log' = Append(log, [Call("annotation", "", "") EXCEPT
                               !.outcome = <<parse_annotation_value(content[1])>>])
    /\ UNCHANGED <<content, description_buffer>>

AnnotationNext == ParseAnnotationValue

AnnotationSpec == AnnotationInit /\ [][AnnotationNext]_vars


\* the same table indented with tabs and, as the syntax guide of the server
\* shows it, with four spaces a level
IndentUnits == {"\t", "    "}

IndentHeader(unit) == <<"table Fact", unit \o "lineageTag: t1">>

IndentBlocks(unit) ==
    << <<unit \o "column Revenue", unit \o unit \o "dataType: double",
         unit \o unit \o "summarizeBy: sum">>,
       <<unit \o "measure Total = SUM(Fact[Revenue])", unit \o unit \o "lineageTag: m1">>,
       <<unit \o "column Id", unit \o unit \o "dataType: int64">> >>

IndentTexts ==
    {FileText(IndentHeader(unit), IndentBlocks(unit), a, TRUE) :
        unit \in IndentUnits,
        a \in {<<1>>, <<2>>, <<3>>, <<1, 2>>, <<2, 1>>, <<1, 3>>, <<3, 1>>, <<2, 3>>, <<3, 2>>}}

IndentUpdates ==
    { <<"measure", "Total", <<[prop |-> "format_string", val |-> Str("#,0")]>> >>,
      <<"column", "Revenue", <<[prop |-> "summarize_by", val |-> Str("none")]>> >> }

IndentDeletes == {<<"column", "Revenue">>, <<"measure", "Total">>, <<"column", "Id">>}

IndentInit ==
    /\ content \in IndentTexts
    /\ log = <<>>
    /\ description_buffer = <<>>

IndentNext ==
    \/ \E u \in IndentUpdates : UpdateElement(u[1], u[2], u[3])
    \/ \E t \in IndentDeletes : DeleteElement(t[1], t[2])

IndentSpec == IndentInit /\ [][IndentNext]_vars


\* the files whose parse is followed line by line: tables with a partition
\* whose source is written on its line and on the lines below it, a
\* calculation group, a malformed measure, top-level blocks around a table,
\* and files that make the parser raise at the top level and inside a block
CursorBlocks ==
    Blocks \o << <<"\tpartition q = m", "\t\tsource", "\t\t\tlet", "\t\t\t\ta = 1", "\t\t\tin a">>,
                 <<"\tcalculationGroup", "\t\tprecedence: 3", "\t\tcalculationItem I = 1",
                   "\t\tcalculationItem J = ", "\t\t\tSELECTEDMEASURE()">>,
                 <<"\tmeasure NoExpr", "\t\tlineageTag: m3", "\t// plain", "\tisHidden">>,
                 <<"\tpartition r = m", "source = x">>,
                 <<"\thierarchy H", "\t\tlevel L", "\t\t\tcolumn: Id", "\tannotation bad">> >>

CursorTexts ==
    {FileText(Header, CursorBlocks, a, TRUE) :
        a \in {<<1, 4>>, <<4, 2>>, <<3, 5>>, <<6, 1>>, <<7, 4>>, <<8>>, <<9>>, <<2, 3>>, <<5, 6>>}}
    \cup {AsContent(SubSeq(FileText(<<>>, TopBlocks, a, FALSE), 2,
                           Len(FileText(<<>>, TopBlocks, a, FALSE)))) :
            a \in {<<1, 2>>, <<4, 5>>, <<6, 3>>, <<2, 6>>, <<1, 4>>}}
    \cup {<<"/// About the database", "database", "\tcompatibilityLevel: high", "table Dim">>,
          <<"table Fact", "table Dim", "\tcolumn Id", "", "">>,
          <<"">>}

CursorInit ==
    /\ content \in CursorTexts
    /\ log = <<>>
    /\ description_buffer = <<>>

\* every line gives at most two iterations, and the end of the file one
MaxIterations(lines) == 2 * Len(lines) + 2

\* the positions after each iteration of a parse that starts at position p,
\* n iterations at most
RECURSIVE Run(_, _, _)
Run(lines, p, n) ==
    IF n = 0 \/ p.frame \in {"returned", "raised"} THEN <<>>
    ELSE LET Then(q) == <<q>> \o Run(lines, q, n - 1)
         IN  Then(IF p.frame = "file" THEN file_iteration(lines, p)
                  ELSE table_iteration(lines, p))

\* the iterations of the parse of each file, worked out once for each file
ParseRuns == [lines \in CursorTexts |-> Run(lines, EnterFile(<<>>), MaxIterations(lines))]

\* where the parser is: before the first iteration, the call of parse_file
Position == IF log = <<>> THEN EnterFile(description_buffer) ELSE log[Len(log)].outcome[1]

\* the position the next iteration of the parse of the file leaves
NextPosition == ParseRuns[content][Len(log) + 1]

\* an iteration of the loop of parse_file: the position it leaves is entered
\* in the log
ParseFileIteration ==
    /\ Position.frame = "file"
    /\ Len(log) < Len(ParseRuns[content])
    /\ log' = Append(log, [Call("iteration", "", "") EXCEPT !.outcome = <<NextPosition>>])
    /\ description_buffer' = IF NextPosition.frame = "table" THEN NextPosition.table.buf
                             ELSE NextPosition.file.buf
    /\ UNCHANGED content

\* an iteration of the loop of _parse_table
ParseTableIteration ==
    /\ Position.frame = "table"
    /\ Len(log) < Len(ParseRuns[content])
    /\ log' = Append(log, [Call("iteration", "", "") EXCEPT !.outcome = <<NextPosition>>])
    /\ description_buffer' = IF NextPosition.frame = "table" THEN NextPosition.table.buf
                             ELSE NextPosition.file.buf
    /\ UNCHANGED content

CursorNext == ParseFileIteration \/ ParseTableIteration

CursorSpec == CursorInit /\ [][CursorNext]_vars

\* the parser runs on: an iteration that can be taken is taken
CursorLiveSpec == CursorSpec /\ WF_vars(CursorNext)

(***************************************************************************)
(* Vocabulary of the properties, stated on the text alone                  *)
(***************************************************************************)
IsBlank(line) == Strip(line) = ""

IsDescription(line) == StartsWith(Strip(line), "///")

\* indentation as the data model defines nesting: leading tabs or spaces
Indentation(line) == LeadCount(line, Whitespace, 0)

\* line is the keyword line of the element: keyword, then the name bare or in
\* one pair of quotes, then the end of the line or an "="
DefinesElement(line, element_type, element_name) ==
    \E n \in {element_name, "'" \o element_name \o "'", "\"" \o element_name \o "\""} :
        LET head == element_type \o " " \o n
        IN  \/ Strip(line) = head
            \/ StartsWith(Strip(line), head \o " =")
            \/ StartsWith(Strip(line), head \o "=")

KeywordLines(text, element_type, element_name) ==
    {k \in 1..Len(text) : DefinesElement(text[k], element_type, element_name)}

Present(text, element_type, element_name) ==
    KeywordLines(text, element_type, element_name) # {}

\* the text holds one element of that keyword and name, as a valid file does
Unique(text, element_type, element_name) ==
    Cardinality(KeywordLines(text, element_type, element_name)) = 1

KeywordLine(text, element_type, element_name) ==
    SetMin0(KeywordLines(text, element_type, element_name))

\* the first line after k that is non-blank at or below the indentation of
\* line k: the exit boundary of the block of line k (Len + 1 at end of file)
ExitBoundary(text, k) ==
    LET exits == {j \in (k + 1)..Len(text) :
                     ~IsBlank(text[j]) /\ Indentation(text[j]) <= Indentation(text[k])}
    IN  IF exits = {} THEN Len(text) + 1 ELSE SetMin0(exits)

\* the last non-blank line of the block of line k
LastBlockLine(text, k) ==
    SetMax0({j \in k..(ExitBoundary(text, k) - 1) : ~IsBlank(text[j])})

\* the first line of the run of /// lines that ends right before line k
DescriptionStart(text, k) ==
    SetMin0({d \in 1..k : \A j \in d..(k - 1) : IsDescription(text[j])})

\* text without the lines a..b
Without(text, a, b) == SubSeq(text, 1, a - 1) \o SubSeq(text, b + 1, Len(text))

\* a is b with one blank line taken out
OneBlankLess(a, b) ==
    \E i \in 1..Len(b) : IsBlank(b[i]) /\ a = Without(b, i, i)

EqualUpToOneBlank(a, b) == a = b \/ OneBlankLess(a, b) \/ OneBlankLess(b, a)

NoDoubleBlank(text) ==
    \A i \in 1..(Len(text) - 1) : ~(IsBlank(text[i]) /\ IsBlank(text[i + 1]))

Last == log[Len(log)]

LastIs(op) == Len(log) >= 1 /\ Last.op = op

\* the lines of a definition as add_element is to insert them
DefLines(element_def) ==
    LET ls == SplitOn(element_def, "\n") IN [k \in 1..Len(ls) |-> "\t" \o ls[k]]

(***************************************************************************)
(* C1.  Add-then-delete round trip: deleting the element that was just     *)
(* added to a text that did not hold it gives the text back, up to one     *)
(* blank separator line.                                                   *)
(***************************************************************************)
AddThenDelete ==
    /\ Len(log) >= 2
    /\ log[Len(log) - 1].op = "add"
    /\ Last.op = "delete"
    /\ Last.element_type = log[Len(log) - 1].element_type
    /\ Last.element_name = log[Len(log) - 1].element_name
    /\ ~Present(log[Len(log) - 1].before, Last.element_type, Last.element_name)

C1_RoundTrip ==
    AddThenDelete => EqualUpToOneBlank(content, log[Len(log) - 1].before)

(***************************************************************************)
(* C2.  Update is property-local: an update of an existing measure that    *)
(* asks for format_string only leaves the keyword line of the measure as   *)
(* it was, and leaves every line before the keyword line and every line    *)
(* from the exit boundary of the block on as they were, in the same order. *)
(***************************************************************************)
FormatStringOnly(updates) == Len(updates) = 1 /\ updates[1].prop = "format_string"

UpdatesFormatString ==
    /\ LastIs("update")
    /\ Last.element_type = "measure"
    /\ FormatStringOnly(Last.updates)
    /\ Unique(Last.before, "measure", Last.element_name)

C2_UpdateLocal ==
    UpdatesFormatString =>
        LET T == Last.before
            k == KeywordLine(T, "measure", Last.element_name)
            x == ExitBoundary(T, k)
            tail == Len(T) - x + 1
        IN  /\ Len(content) >= Len(T)
            /\ SubSeq(content, 1, k) = SubSeq(T, 1, k)
            /\ SubSeq(content, Len(content) - tail + 1, Len(content)) = SubSeq(T, x, Len(T))

\* the measure has a sibling block after it, and the text changed
C2_Witness ==
    /\ UpdatesFormatString
    /\ LET T == Last.before
           k == KeywordLine(T, "measure", Last.element_name)
       IN  /\ ExitBoundary(T, k) <= Len(T)
           /\ Indentation(T[ExitBoundary(T, k)]) = Indentation(T[k])
    /\ content # Last.before

(***************************************************************************)
(* Vocabulary of the parser properties                                     *)
(***************************************************************************)
Prev == log[Len(log) - 1]

\* the last call was parse_file, which returned a document
Parsed == LastIs("parse") /\ Last.outcome[1].err = <<>>

Document == Last.outcome[1].val[1]

\* one table: the table line first, every other non-blank line below it
TableShaped(text) ==
    /\ Len(text) >= 1
    /\ StartsWith(text[1], "table ")
    /\ \A i \in 2..Len(text) : IsBlank(text[i]) \/ Indentation(text[i]) >= 1

\* the keyword lines at the nesting depth of the children of the table
ChildLines(text, keyword) ==
    {i \in 1..Len(text) : Indentation(text[i]) = 1 /\ StartsWith(Strip(text[i]), keyword \o " ")}

\* a measure line is well formed when it reads measure <name> = <expression>
\* and a name of several words is in quotes
WellFormedMeasure(line) ==
    LET m == RegexNameEqExpr(Strip(line), "measure")
    IN  m.ok /\ (Contains(Strip(m.name), " ") => IsQuoted(Strip(m.name)))

MeasureLineName(line) == Unquote(Strip(RegexNameEqExpr(Strip(line), "measure").name))

ValidTableText(text) ==
    /\ TableShaped(text)
    /\ \A i \in ChildLines(text, "measure") : WellFormedMeasure(text[i])

(***************************************************************************)
(* C3.  Format-then-parse round trip: when the definition that             *)
(* format_column_definition made of a column spec has been added to a      *)
(* table and the table is parsed, the document holds a column that equals  *)
(* the spec in every field the spec set: name, data type, lineage tag,     *)
(* format string, summarize-by, hidden flag and expression.                *)
(***************************************************************************)
\* every column and measure of the table has property lines
AllWithProperties(text) ==
    \A i \in ChildLines(text, "column") \cup ChildLines(text, "measure") :
        i < Len(text) /\ Indentation(text[i + 1]) > 1

FormattedThenParsed ==
    /\ Len(log) >= 2
    /\ Prev.op = "add"
    /\ Prev.element_type = "column"
    /\ Last.op = "parse"
    /\ ValidTableText(Prev.before)
    /\ AllWithProperties(Prev.before)
    /\ TableShaped(Last.before)

EqualsSpec(column, c) ==
    /\ column.name = c.name
    /\ column.data_type = c.data_type
    /\ c.lineage_tag # "" => column.lineage_tag = c.lineage_tag
    /\ c.format_string # "" => column.format_string = <<c.format_string>>
    /\ c.summarize_by # "" => column.summarize_by = c.summarize_by
    /\ column.is_hidden = c.is_hidden
    /\ c.expression # "" => column.expression = <<c.expression>>

C3_FormatParse ==
    FormattedThenParsed =>
        /\ Last.outcome[1].err = <<>>
        /\ \E t \in 1..Len(Document.tables) :
              \E k \in 1..Len(Document.tables[t].columns) :
                  EqualsSpec(Document.tables[t].columns[k], Prev.spec[1])

(***************************************************************************)
(* C4.  The table parsed from a valid single-table text has as many        *)
(* columns and as many measures as the text has column and measure keyword *)
(* lines at the nesting depth of the table's children.                     *)
(***************************************************************************)
C4_ElementCounts ==
    (LastIs("parse") /\ ValidTableText(Last.before)) =>
        /\ Last.outcome[1].err = <<>>
        /\ Len(Document.tables) = 1
        /\ Len(Document.tables[1].columns) = Cardinality(ChildLines(Last.before, "column"))
        /\ Len(Document.tables[1].measures) = Cardinality(ChildLines(Last.before, "measure"))

(***************************************************************************)
(* C5.  Measure leniency: a measure line that is malformed, or whose name  *)
(* of several words is not quoted, raises no error and gives no Measure    *)
(* record, and every well-formed measure line that follows it in the table *)
(* gives a Measure record.                                                 *)
(***************************************************************************)
MeasureNames(table) == {Unquote(table.measures[k].name) : k \in 1..Len(table.measures)}

C5_MeasureLeniency ==
    (LastIs("parse") /\ TableShaped(Last.before)) =>
        LET T == Last.before
            bad == {i \in ChildLines(T, "measure") : ~WellFormedMeasure(T[i])}
        IN  bad # {} =>
                /\ Last.outcome[1].err = <<>>
                /\ Len(Document.tables) = 1
                /\ \A j \in ChildLines(T, "measure") :
                      (WellFormedMeasure(T[j]) /\ \E i \in bad : i < j)
                          => MeasureLineName(T[j]) \in MeasureNames(Document.tables[1])

(***************************************************************************)
(* C6.  parse_file fails with a syntax error exactly when a non-blank,     *)
(* non-comment line at the top level starts with none of the recognized    *)
(* keywords; the error carries the 1-based number of the first such line.  *)
(***************************************************************************)
TopLevelKeywords ==
    {"model ", "table ", "relationship ", "cultureInfo ", "database", "annotation ",
     "ref table ", "ref cultureInfo "}

BlockKeywords == {"model ", "table ", "relationship ", "cultureInfo ", "database"}

Recognized(line) == \E kw \in TopLevelKeywords : StartsWith(Strip(line), kw)

\* line i is inside a block: it is indented, and the nearest non-blank line
\* above it at indentation 0 opens a block
InBlock(text, i) ==
    /\ Indentation(text[i]) > 0
    /\ LET above == {k \in 1..(i - 1) : ~IsBlank(text[k]) /\ Indentation(text[k]) = 0}
       IN  /\ above # {}
           /\ \E kw \in BlockKeywords : StartsWith(text[SetMax0(above)], kw)

UnrecognizedTopLevel(text) ==
    {i \in 1..Len(text) :
        /\ ~IsBlank(text[i])
        /\ ~StartsWith(Strip(text[i]), "//")
        /\ ~InBlock(text, i)
        /\ ~Recognized(text[i])}

SyntaxError(outcome) ==
    /\ outcome.err # <<>>
    /\ outcome.err[1].kind = "TMDLParseError"
    /\ StartsWith(outcome.err[1].message, "Unrecognized TMDL syntax")

C6_SyntaxErrorExactly ==
    LastIs("parse") =>
        LET U == UnrecognizedTopLevel(Last.before)
        IN  /\ SyntaxError(Last.outcome[1]) <=> U # {}
            /\ U # {} => Last.outcome[1].err[1].line_number = SetMin0(U)
            /\ Last.outcome[1].err # <<>> => Last.outcome[1].val = <<>>

(***************************************************************************)
(* C7.  A mutation that cannot be applied is never partially applied: an   *)
(* update or delete whose keyword and name match no line returns the text  *)
(* it was given, and an update returns either the text it was given or a   *)
(* text in which every requested property has its requested value.         *)
(***************************************************************************)
\* the requested property has its requested value in the block of line k
Applied(text, k, element_type, update) ==
    IF update.prop = "expression"
    THEN EndsWith(text[k], " = " \o update.val.v)
    ELSE \E j \in (k + 1)..(ExitBoundary(text, k) - 1) :
            Strip(text[j]) = to_tmdl_property_name(update.prop) \o ": "
                             \o format_value(update.val)

C7_NoMatchNoChange ==
    (/\ Len(log) >= 1
     /\ Last.op \in {"update", "delete"}
     /\ ~Present(Last.before, Last.element_type, Last.element_name))
        => content = Last.before

C7_NeverPartial ==
    /\ C7_NoMatchNoChange
    /\ (LastIs("update") /\ Present(Last.before, Last.element_type, Last.element_name))
        => \/ content = Last.before
           \/ \A u \in 1..Len(Last.updates) :
                 Applied(content, KeywordLine(content, Last.element_type, Last.element_name),
                         Last.element_type, Last.updates[u])

(***************************************************************************)
(* C8.  delete_element removes the whole block of the target and the whole *)
(* run of /// lines right before it, removes no other line, and leaves no  *)
(* double blank line where there was none.                                 *)
(***************************************************************************)
DeletesPresent ==
    /\ LastIs("delete")
    /\ Present(Last.before, Last.element_type, Last.element_name)

C8_DeleteWholeBlock ==
    DeletesPresent =>
        LET T == Last.before
            k == KeywordLine(T, Last.element_type, Last.element_name)
            d == DescriptionStart(T, k)
        IN  /\ \E e \in LastBlockLine(T, k)..(ExitBoundary(T, k) - 1) :
                   content = AsContent(Without(T, d, e))
            /\ NoDoubleBlank(T) => NoDoubleBlank(content)

(***************************************************************************)
(* C9.  A block that runs to the end of the file is located by delete and  *)
(* update: delete removes the block (nothing before its description run),  *)
(* update puts a missing property inside the block and changes nothing     *)
(* before the block's property lines.                                      *)
(***************************************************************************)
TargetsLastBlock ==
    /\ Len(log) >= 1
    /\ Last.op \in {"update", "delete"}
    /\ Unique(Last.before, Last.element_type, Last.element_name)
    /\ LET k == KeywordLine(Last.before, Last.element_type, Last.element_name)
       IN  ExitBoundary(Last.before, k) = Len(Last.before) + 1

C9_LastBlock ==
    TargetsLastBlock =>
        LET T == Last.before
            k == KeywordLine(T, Last.element_type, Last.element_name)
        IN  IF Last.op = "delete"
            THEN \E d \in DescriptionStart(T, k)..k : content = AsContent(SubSeq(T, 1, d - 1))
            ELSE /\ SubSeq(content, 1, k - 1) = SubSeq(T, 1, k - 1)
                 /\ DefinesElement(content[k], Last.element_type, Last.element_name)
                 /\ ExitBoundary(content, k) = Len(content) + 1
                 /\ \A u \in 1..Len(Last.updates) :
                       Last.updates[u].prop # "expression" =>
                           Applied(content, k, Last.element_type, Last.updates[u])

\* the block ends with the last line of a file without a final newline; the
\* delete took it out, or the update appended a property that was missing
C9_Witness ==
    /\ TargetsLastBlock
    /\ ~IsBlank(Last.before[Len(Last.before)])
    /\ \/ Last.op = "delete" /\ Len(content) < Len(Last.before)
       \/ Last.op = "update" /\ Len(content) > Len(Last.before)

(***************************************************************************)
(* C10.  add_element inserts (1) right after the last block of the same    *)
(* keyword; else (2) a measure before the first column or partition line,  *)
(* a column before the first partition line; else (3) three lines before   *)
(* the end of the file.  A column added to a table whose last column block *)
(* is followed by a partition block lands right before the partition line. *)
(***************************************************************************)
KeywordLinesOf(text, keyword) ==
    {i \in 1..Len(text) : StartsWith(Strip(text[i]), keyword \o " ")}

\* the number of lines of text that the priority order puts before the new element
ExpectedPosition(text, element_type) ==
    LET same == KeywordLinesOf(text, element_type)
        anchors == IF element_type = "measure"
                   THEN KeywordLinesOf(text, "column") \cup KeywordLinesOf(text, "partition")
                   ELSE KeywordLinesOf(text, "partition")
    IN  IF same # {} THEN ExitBoundary(text, SetMax0(same)) - 1
        ELSE IF anchors # {} THEN SetMin0(anchors) - 1
        ELSE IF Len(text) >= 3 THEN Len(text) - 3 ELSE 0

\* new is old with the block ins put in after the first pos lines, followed
\* by a blank separator line where the next line is not blank
InsertedAt(new, old, ins, pos) ==
    LET plain == SubSeq(old, 1, pos) \o ins \o SubSeq(old, pos + 1, Len(old))
        spaced == SubSeq(old, 1, pos) \o ins \o <<"">> \o SubSeq(old, pos + 1, Len(old))
    IN  IF pos < Len(old) /\ ~IsBlank(old[pos + 1]) THEN new = spaced ELSE new = plain

C10_InsertionPriority ==
    LastIs("add") =>
        LET T == Last.before
            pos == ExpectedPosition(T, Last.element_type)
            cols == KeywordLinesOf(T, "column")
        IN  /\ InsertedAt(content, T, DefLines(Last.element_def), pos)
            /\ (/\ Last.element_type = "column"
                /\ cols # {}
                /\ ExitBoundary(T, SetMax0(cols)) <= Len(T)
                /\ StartsWith(Strip(T[ExitBoundary(T, SetMax0(cols))]), "partition "))
               => /\ pos < Len(T)
                  /\ StartsWith(Strip(T[pos + 1]), "partition ")

\* a column was added to a table that had a column block followed by a
\* partition block, and it sits between the two
C10_Witness ==
    /\ LastIs("add")
    /\ Last.element_type = "column"
    /\ KeywordLinesOf(Last.before, "column") # {}
    /\ \E i \in 1..(Len(content) - 1) :
          /\ DefinesElement(content[i], "column", Last.element_name)
          /\ \E j \in (i + 1)..Len(content) :
                /\ StartsWith(Strip(content[j]), "partition ")
                /\ \A m \in (i + 1)..(j - 1) : Indentation(content[m]) > 1 \/ IsBlank(content[m])

(***************************************************************************)
(* C11.  format_column_definition emits the keyword line, then one         *)
(* property line per supplied field in the order dataType, lineageTag,     *)
(* formatString, summarizeBy, isHidden; isHidden is a line without a value *)
(* and is there only for a hidden column; the lineage tag is always there, *)
(* generated when none is supplied; a hidden string column Notes with no   *)
(* other option is exactly four lines.                                     *)
(***************************************************************************)
PropertyOrder == <<"dataType", "lineageTag", "formatString", "summarizeBy", "isHidden">>

\* the property a line of a definition sets: the text up to its colon
PropertyOf(line) ==
    LET s == Strip(line) IN IF Contains(s, ":") THEN SubSeq(s, 1, FindFrom(s, ":", 1) - 1) ELSE s

\* the fields of a column spec that hold a value, in the canonical order
SuppliedFields(c) ==
    <<"dataType", "lineageTag">>
    \o (IF c.format_string # "" THEN <<"formatString">> ELSE <<>>)
    \o (IF c.summarize_by # "" THEN <<"summarizeBy">> ELSE <<>>)
    \o (IF c.is_hidden THEN <<"isHidden">> ELSE <<>>)

C11_ColumnLines ==
    LastIs("format") =>
        LET c == Last.spec[1]
            fields == SuppliedFields(c)
        IN  /\ Len(content) = 1 + Len(fields)
            /\ StartsWith(content[1], "column ")
            /\ ~StartsWith(content[1], "\t")
            /\ \A k \in 1..Len(fields) : PropertyOf(content[k + 1]) = fields[k]
            /\ \A k \in 2..Len(content) : StartsWith(content[k], "\t")
            /\ content[2] = "\tdataType: " \o c.data_type
            /\ content[3] = "\tlineageTag: " \o (IF c.lineage_tag # "" THEN c.lineage_tag
                                                 ELSE Last.outcome[1])
            /\ Strip(content[3]) # "lineageTag:"
            /\ c.is_hidden => content[Len(content)] = "\tisHidden"
            /\ (c = [name |-> "Notes", data_type |-> "string", expression |-> "",
                     format_string |-> "", summarize_by |-> "", is_hidden |-> TRUE,
                     lineage_tag |-> ""])
               => content = <<"column Notes", "\tdataType: string",
                              "\tlineageTag: " \o Last.outcome[1], "\tisHidden">>

\* a hidden column was formatted with every optional field and no lineage
\* tag of its own: six lines, the generated tag on the third
C11_Witness ==
    /\ LastIs("format")
    /\ Last.spec[1].is_hidden
    /\ Last.spec[1].lineage_tag = ""
    /\ Last.spec[1].format_string # ""
    /\ Last.spec[1].summarize_by # ""
    /\ Len(content) = 6
    /\ content[3] = "\tlineageTag: " \o Last.outcome[1]
    /\ content[6] = "\tisHidden"

(***************************************************************************)
(* C18.  Containment: a property line that is indented deeper than the     *)
(* keyword line of a column or measure, up to the first non-blank line at  *)
(* or below the indentation of that keyword line, is recorded on that      *)
(* element and on nothing else; the lineage tag and the hidden flag of the *)
(* table come from the table's own lines, never from a lineageTag or       *)
(* isHidden line of one of its columns or measures.                        *)
(***************************************************************************)
\* the lines of the table itself: at the nesting depth of its children
OwnLines(text) == {i \in 2..Len(text) : Indentation(text[i]) = 1}

\* the lines of the block of the keyword line k, one level below it
BlockLines(text, k) ==
    {j \in (k + 1)..(ExitBoundary(text, k) - 1) : Indentation(text[j]) = Indentation(text[k]) + 1}

IsLineageTag(line) == StartsWith(Strip(line), "lineageTag:")

LineageTagOf(line) == Strip(SubSeq(Strip(line), Len("lineageTag:") + 1, Len(Strip(line))))

C18_Containment ==
    (Parsed /\ ValidTableText(Last.before) /\ Len(Document.tables) = 1) =>
        LET T == Last.before
            table == Document.tables[1]
            tags == {i \in OwnLines(T) : IsLineageTag(T[i])}
        IN  /\ table.lineage_tag = (IF tags = {} THEN <<>>
                                    ELSE <<LineageTagOf(T[SetMax0(tags)])>>)
            /\ table.is_hidden <=> \E i \in OwnLines(T) : Strip(T[i]) = "isHidden"
            /\ \A k \in ChildLines(T, "column") :
                  \A j \in BlockLines(T, k) :
                      IsLineageTag(T[j]) =>
                          \E c \in 1..Len(table.columns) :
                              table.columns[c].lineage_tag = LineageTagOf(T[j])
            /\ \A k \in ChildLines(T, "measure") :
                  \A j \in BlockLines(T, k) :
                      IsLineageTag(T[j]) =>
                          \E m \in 1..Len(table.measures) :
                              table.measures[m].lineage_tag = LineageTagOf(T[j])

(***************************************************************************)
(* C19.  Names are unquoted the same way for columns and for measures: a   *)
(* matching pair of single or double quotes around the name of a column or *)
(* measure line is stripped, so the element parsed from                    *)
(* measure 'Row Count' = ... is named Row Count.                           *)
(***************************************************************************)
ColumnLineName(line) ==
    LET s == Strip(line)
        m == RegexNameEqExpr(s, "column")
    IN  IF Contains(s, " = ") /\ m.ok THEN Unquote(Strip(m.name))
        ELSE Unquote(Strip(SubSeq(s, Len("column ") + 1, Len(s))))

C19_UniformUnquoting ==
    (Parsed /\ ValidTableText(Last.before) /\ Len(Document.tables) = 1) =>
        LET T == Last.before
            table == Document.tables[1]
        IN  /\ \A j \in ChildLines(T, "measure") :
                  \E m \in 1..Len(table.measures) :
                      table.measures[m].name = MeasureLineName(T[j])
            /\ \A j \in ChildLines(T, "column") :
                  \E c \in 1..Len(table.columns) :
                      table.columns[c].name = ColumnLineName(T[j])
            /\ \A m \in 1..Len(table.measures) : ~IsQuoted(table.measures[m].name)
            /\ \A c \in 1..Len(table.columns) : ~IsQuoted(table.columns[c].name)

(***************************************************************************)
(* C20.  A column or measure line whose right-hand side is empty           *)
(* (column Name = / measure Name =) gives the element named Name, whose    *)
(* expression is made of the more-indented lines that follow; the element  *)
(* is not dropped and the "=" is not part of its name.                     *)
(***************************************************************************)
EmptyRhs(line) == EndsWith(Strip(line), " =")

\* the name of a keyword line whose right-hand side is empty
EmptyRhsName(line, keyword) ==
    Unquote(Strip(SubSeq(Strip(line), Len(keyword) + 2, Len(Strip(line)) - 1)))

\* the element has an expression that starts with the text of the line
StartsExpression(element_expression, line) ==
    /\ element_expression # <<>>
    /\ StartsWith(element_expression[1], Strip(line))

C20_EmptyRhsIsMultiline ==
    (Parsed /\ TableShaped(Last.before) /\ Len(Document.tables) = 1) =>
        LET T == Last.before
            table == Document.tables[1]
        IN  /\ \A i \in ChildLines(T, "column") :
                  (EmptyRhs(T[i]) /\ i < Len(T) /\ Indentation(T[i + 1]) > 1) =>
                      \E c \in 1..Len(table.columns) :
                          /\ table.columns[c].name = EmptyRhsName(T[i], "column")
                          /\ StartsExpression(table.columns[c].expression, T[i + 1])
            /\ \A i \in ChildLines(T, "measure") :
                  (EmptyRhs(T[i]) /\ i < Len(T) /\ Indentation(T[i + 1]) > 1) =>
                      \E m \in 1..Len(table.measures) :
                          /\ table.measures[m].name = EmptyRhsName(T[i], "measure")
                          /\ StartsExpression(<<table.measures[m].expression>>, T[i + 1])

(***************************************************************************)
(* C17.  load_project given the path of a standalone *.SemanticModel       *)
(* directory, which holds no .pbip file, returns a project whose semantic  *)
(* model is loaded and whose project info is synthetic (version "1.0", no  *)
(* artifacts); given a directory that holds neither a .pbip file nor a     *)
(* .SemanticModel directory it raises ProjectParseError.                   *)
(***************************************************************************)
C17_StandaloneSemanticModel ==
    LastIs("load") =>
        /\ Last.element_name = "proj/Sales.SemanticModel" =>
              /\ Last.outcome[1].err = <<>>
              /\ Last.outcome[1].val[1].project_info = [version |-> "1.0", artifacts |-> 0]
              /\ Last.outcome[1].val[1].semantic_model # <<>>
        /\ Last.element_name = "empty" =>
              /\ Last.outcome[1].err # <<>>
              /\ Last.outcome[1].err[1].kind = "ProjectParseError"

(***************************************************************************)
(* C16.  Every handler (measure, column, table, relationship) signals      *)
(* failure by value: execute called with an operation it does not support, *)
(* or with a project path that does not exist or holds no semantic model,  *)
(* returns one response whose text starts with "Error:", raises nothing    *)
(* and changes no file.                                                    *)
(***************************************************************************)
Supported(handler) ==
    CASE handler = "measure" -> {"list", "add", "update", "delete"}
      [] handler = "column" -> {"list", "add", "update", "delete"}
      [] handler = "table" -> {"list", "get", "get_model_details"}
      [] handler = "relationship" -> {"list"}

\* the last call was one a handler cannot serve
CannotServe ==
    /\ Len(log) >= 1
    /\ Last.element_type \in {"measure", "column", "table", "relationship"}
    /\ \/ Last.op \notin Supported(Last.element_type)
       \/ ~Directory(Last.spec[1].project_path[1]).exists
       \/ ~Directory(Last.spec[1].project_path[1]).semantic_model

C16_FailureByValue ==
    CannotServe =>
        /\ Last.outcome[1].raised = <<>>
        /\ Len(Last.outcome[1].response) = 1
        /\ StartsWith(Last.outcome[1].response[1].text, "Error:")
        /\ content = Last.before

(***************************************************************************)
(* C15.  An add or an update of a measure, or an add of a calculated       *)
(* column, whose expression fails the structural check (blank, unbalanced  *)
(* parentheses, brackets or quotes, a trailing comma, an empty call "()")  *)
(* returns an error and leaves the text of the table file as it was; the   *)
(* error is "Invalid DAX expression" whenever the table and the name are   *)
(* such that the rest of the request could be carried out.                 *)
(***************************************************************************)
CountOf(e, c) == Cardinality({k \in 1..Len(e) : Ch(e, k) = c})

\* every closing bracket has an opening one before it, and none is left open
Balanced(e, open, close) ==
    /\ CountOf(e, open) = CountOf(e, close)
    /\ \A k \in 1..Len(e) : CountOf(SubSeq(e, 1, k), close) <= CountOf(SubSeq(e, 1, k), open)

FailsStructuralCheck(e) ==
    \/ Strip(e) = ""
    \/ ~Balanced(e, "(", ")")
    \/ ~Balanced(e, "[", "]")
    \/ CountOf(e, "\"") % 2 = 1
    \/ EndsWith(Strip(e), ",")
    \/ Contains(e, "()")

\* the last call gave an expression to check: a measure added or updated
\* with one, or a column added with a non-empty one
ChecksExpression ==
    /\ Len(log) >= 1
    /\ Last.spec # <<>>
    /\ Last.spec[1].expression # <<>>
    /\ \/ Last.element_type = "measure" /\ Last.op \in {"add", "update"}
       \/ Last.element_type = "column" /\ Last.op = "add" /\ Last.spec[1].expression[1] # ""

NamesOf(text, keyword) ==
    {normalize_element_name(Unquote(Strip(RegexNameEqOrEnd(Strip(text[i]), keyword).name))) :
        i \in {j \in 1..Len(text) : StartsWith(Strip(text[j]), keyword \o " ")}}

\* nothing but the expression stands in the way of the last call
OtherwiseAcceptable ==
    LET name == normalize_element_name(Last.element_name)
    IN  IF Last.op = "update" THEN name \in NamesOf(Last.before, Last.element_type)
        ELSE name \notin NamesOf(Last.before, Last.element_type)

DeclaredNames(text, keyword) ==
    LET lines == SelectSeq(text, LAMBDA l : StartsWith(Strip(l), keyword \o " "))
    IN  [k \in 1..Len(lines) |->
            normalize_element_name(
                Unquote(Strip(RegexNameEqOrEnd(Strip(lines[k]), keyword).name)))]

NoDuplicate(names) == \A i, j \in 1..Len(names) : names[i] = names[j] => i = j

\* the measures of the model: those of Fact.tmdl and those of Dim.tmdl
ModelMeasures(fact) == DeclaredNames(fact, "measure") \o DeclaredNames(DimText, "measure")

UniqueNames(fact) ==
    /\ NoDuplicate(DeclaredNames(fact, "column"))
    /\ NoDuplicate(ModelMeasures(fact))

\* the last call is an add to Fact of a name the model declares already
AddsExisting ==
    /\ Len(log) >= 1
    /\ Last.op = "add"
    /\ Last.spec # <<>>
    /\ Last.spec[1].table_name = <<"Fact">>
    /\ \E k \in 1..Len(IF Last.element_type = "measure" THEN ModelMeasures(Last.before)
                       ELSE DeclaredNames(Last.before, "column")) :
          (IF Last.element_type = "measure" THEN ModelMeasures(Last.before)
           ELSE DeclaredNames(Last.before, "column"))[k]
              = normalize_element_name(Last.element_name)

C12_NamesStayUnique ==
    /\ (Len(log) >= 1 /\ UniqueNames(log[1].before)) => UniqueNames(content)
    /\ AddsExisting =>
          /\ content = Last.before
          /\ Last.outcome[1].response # <<>>
          /\ Contains(Last.outcome[1].response[1].text, "already exists")


(***************************************************************************)
(* C13.  After a successful add of a measure or a column named n to a      *)
(* table, the next list for the table holds an element whose name is       *)
(* exactly n, as the caller gave it; after a successful delete of n that   *)
(* follows the add, a list for the table does not hold n and still holds   *)
(* every element that a list held before the add.                          *)
(***************************************************************************)
Succeeded(call) ==
    /\ call.outcome # <<>>
    /\ call.outcome[1].response # <<>>
    /\ call.outcome[1].response[1].data # <<>>

\* the names that a successful list call returned
ListedNames(call) ==
    LET elements == IF call.element_type = "measure"
                    THEN call.outcome[1].response[1].data[1].measures
                    ELSE call.outcome[1].response[1].data[1].columns
    IN  {elements[k].name : k \in 1..Len(elements)}

\* the list of the elements of the kind of call for its table, as the
\* handler gives it for the text fact
ListFor(call, fact) ==
    [call EXCEPT !.op = "list",
                 !.outcome =
                    LET Take(r) == <<[raised |-> r.raised, response |-> r.response]>>
                        arguments == [call.spec[1] EXCEPT !.name = <<>>]
                    IN  IF call.element_type = "measure"
                        THEN Take(measure_execute("list", arguments, fact, <<>>, ""))
                        ELSE Take(column_execute("list", arguments, fact, <<>>, ""))]

C13_ListFollowsAddAndDelete ==
    /\ (/\ Len(log) >= 2
        /\ Prev.op = "add" /\ Succeeded(Prev)
        /\ Last.op = "list" /\ Last.element_type = Prev.element_type
        /\ Last.spec[1].table_name = Prev.spec[1].table_name)
       => Succeeded(Last) /\ Prev.element_name \in ListedNames(Last)
    /\ (/\ Len(log) >= 2
        /\ Prev.op = "add" /\ Succeeded(Prev)
        /\ Last.op = "delete" /\ Succeeded(Last)
        /\ Last.element_type = Prev.element_type
        /\ Last.element_name = Prev.element_name
        /\ Succeeded(ListFor(Prev, Prev.before)))
       => /\ Succeeded(ListFor(Last, content))
          /\ Last.element_name \notin ListedNames(ListFor(Last, content))
          /\ ListedNames(ListFor(Prev, Prev.before)) \subseteq ListedNames(ListFor(Last, content))


(***************************************************************************)
(* C14.  An update of a column keeps every column of the table in its      *)
(* class: a column that a list gave as regular before the update is given  *)
(* as regular after it, and one given as calculated is given as calculated *)
(* with an expression that is not blank.  An update that gives an          *)
(* expression for a regular column, or a blank one for a calculated        *)
(* column, returns an error and leaves the text of the table file as it    *)
(* was.                                                                    *)
(***************************************************************************)
\* the columns that the list for the table of call gives for the text fact
ListedColumns(call, fact) ==
    LET listed == ListFor(call, fact).outcome[1].response[1].data[1].columns
    IN  {listed[k] : k \in 1..Len(listed)}

ColumnUpdated ==
    /\ Len(log) >= 1
    /\ Last.element_type = "column"
    /\ Last.op = "update"
    /\ Succeeded(ListFor(Last, Last.before))

\* the column the last call names, as the list before the call gave it
Target == {c \in ListedColumns(Last, Last.before) :
              normalize_element_name(c.name) = normalize_element_name(Last.element_name)}

ChangesClass ==
    /\ Last.spec[1].expression # <<>>
    /\ \E c \in Target : \/ ~c.is_calculated
                         \/ c.is_calculated /\ Strip(Last.spec[1].expression[1]) = ""

C14_ClassPreserved ==
    ColumnUpdated =>
        /\ Succeeded(ListFor(Last, content))
        /\ \A c \in ListedColumns(Last, Last.before) :
              \E d \in ListedColumns(Last, content) :
                  /\ d.name = c.name
                  /\ d.is_calculated = c.is_calculated
                  /\ c.is_calculated => d.expression # <<>> /\ Strip(d.expression[1]) # ""
        /\ ChangesClass =>
              /\ content = Last.before
              /\ Last.outcome[1].response # <<>>
              /\ StartsWith(Last.outcome[1].response[1].text, "Error: ")


(***************************************************************************)
(* C21.  The description of a parsed table, column or measure is exactly   *)
(* the run of /// lines that ends right before its keyword line: a run     *)
(* that is followed by any other line (a property line, a hierarchy, a     *)
(* partition, an annotation, a model block) is attached to no element.     *)
(* Stated for a parser whose buffer was empty when the call was made.      *)
(***************************************************************************)
\* the j-th smallest member of a set of line numbers
Nth(S, j) == CHOOSE i \in S : Cardinality({x \in S : x <= i}) = j

\* the text of the /// lines right before line k, joined as a description
\* is: <<>> when there is no such line
ExpectedDescription(text, k) ==
    LET d == DescriptionStart(text, k)
    IN  Description([i \in 1..(k - d) |->
                        Strip(Mid(Strip(text[d + i - 1]), 4, Len(Strip(text[d + i - 1]))))])

TableLines(text) == {i \in 1..Len(text) : StartsWith(text[i], "table ")}

\* the elements are those of the keyword lines, in order, each with the
\* description of its own line
Described(elements, text, keyword_lines) ==
    /\ Len(elements) = Cardinality(keyword_lines)
    /\ \A j \in 1..Len(elements) :
          elements[j].description = ExpectedDescription(text, Nth(keyword_lines, j))

ParsedWithEmptyBuffer ==
    /\ Parsed
    /\ Last.spec = <<[description_buffer |-> <<>>]>>

C21_DescriptionAttachment ==
    ParsedWithEmptyBuffer =>
        /\ Described(Document.tables, Last.before, TableLines(Last.before))
        /\ TableShaped(Last.before) =>
              /\ Described(Document.tables[1].columns, Last.before,
                           ChildLines(Last.before, "column"))
              /\ Described(Document.tables[1].measures, Last.before,
                           ChildLines(Last.before, "measure"))


(***************************************************************************)
(* C22.  Parsing carries no state between calls: two parse_file calls of   *)
(* one parser on the same text have the same outcome, whatever calls the   *)
(* parser served in between and before.                                    *)
(***************************************************************************)
C22_NoStateBetweenCalls ==
    \A i, j \in 1..Len(log) :
        (log[i].op = "parse" /\ log[j].op = "parse" /\ log[i].before = log[j].before)
            => log[i].outcome = log[j].outcome


(***************************************************************************)
(* C23: after update_element of an existing element with requested         *)
(* properties other than the expression, the block of the element holds    *)
(* exactly one line for each requested property, with the requested value: *)
(* a line that was there is replaced where it stood, a missing one is      *)
(* added before the exit boundary of the block.  For the flag isHidden,    *)
(* true gives one line `isHidden` and false gives no line the parser reads *)
(* as hidden.  Every other line of the block is unchanged.                 *)
(***************************************************************************)
\* the parser takes every line that starts with the flag's name for the flag
ReadsAsHidden(line) == StartsWith(Strip(line), "isHidden")

\* line is a line of the requested property
LineOf(line, prop) ==
    IF prop = "is_hidden" THEN ReadsAsHidden(line)
    ELSE StartsWith(Strip(line), to_tmdl_property_name(prop) \o ":")

\* the lines of the block of line k, the keyword line excluded
BlockBody(text, k) == (k + 1)..(ExitBoundary(text, k) - 1)

LinesOf(text, k, prop) == {j \in BlockBody(text, k) : LineOf(text[j], prop)}

\* the block holds one line for the requested property, with its value
OneLineFor(text, k, u) ==
    IF u.prop = "is_hidden" /\ ~u.val.v THEN LinesOf(text, k, u.prop) = {}
    ELSE /\ Cardinality(LinesOf(text, k, u.prop)) = 1
         /\ \A j \in LinesOf(text, k, u.prop) :
                IF u.prop = "is_hidden" THEN Strip(text[j]) = "isHidden"
                ELSE parse_property_value(Strip(text[j])) = u.val.v

RECURSIVE Keep(_, _, _)
Keep(text, js, j) ==
    IF j > Len(text) THEN <<>>
    ELSE (IF j \in js THEN <<text[j]>> ELSE <<>>) \o Keep(text, js, j + 1)

\* the block of line k without the lines of the requested properties
OtherLines(text, k, updates) ==
    Keep(text, {j \in BlockBody(text, k) :
                    \A u \in 1..Len(updates) : ~LineOf(text[j], updates[u].prop)}, 1)

\* the last call updated properties of an element the text holds once
PropertyUpdate ==
    /\ LastIs("update")
    /\ ~HasProp(Last.updates, "expression")
    /\ Unique(Last.before, Last.element_type, Last.element_name)

C23_PropertiesSet ==
    PropertyUpdate =>
        LET T == Last.before
            k == KeywordLine(T, Last.element_type, Last.element_name)
        IN  /\ SubSeq(content, 1, k) = SubSeq(T, 1, k)
            /\ \A u \in 1..Len(Last.updates) :
                   /\ OneLineFor(content, k, Last.updates[u])
                   /\ \A j \in LinesOf(T, k, Last.updates[u].prop) :
                          LineOf(content[j], Last.updates[u].prop)
            /\ OtherLines(content, k, Last.updates) = OtherLines(T, k, Last.updates)

\* the same for the updates that meet no presence-only line of the flag and
\* do not ask for the flag to be false
C23_PropertiesSetWithoutFlagLine ==
    (/\ PropertyUpdate
     /\ \A u \in 1..Len(Last.updates) :
            Last.updates[u].prop = "is_hidden" =>
                /\ Last.updates[u].val.v
                /\ LinesOf(Last.before,
                           KeywordLine(Last.before, Last.element_type, Last.element_name),
                           "is_hidden") = {})
        => C23_PropertiesSet


(***************************************************************************)
(* C24: after update_element with `expression` = e on an existing measure  *)
(* or calculated column, parsing the text again gives that element with    *)
(* the same name and with the expression e, for a definition of one line   *)
(* and for one whose expression was written over several lines; no line of *)
(* the old expression remains.                                             *)
(***************************************************************************)
\* the lines of the expression below the keyword line k: the run of lines
\* right after it that are indented deeper than the properties
RECURSIVE ExpressionLines(_, _, _)
ExpressionLines(text, k, j) ==
    IF j <= Len(text) /\ ~IsBlank(text[j]) /\ Indentation(text[j]) >= Indentation(text[k]) + 2
    THEN {j} \cup ExpressionLines(text, k, j + 1)
    ELSE {}

\* an update of the expression of an element the text held once, then a
\* parse of the text
ExpressionUpdateParsed ==
    /\ Len(log) >= 2
    /\ LastIs("parse")
    /\ Prev.op = "update"
    /\ HasProp(Prev.updates, "expression")
    /\ Unique(Prev.before, Prev.element_type, Prev.element_name)

\* the elements of that keyword the document holds under the name
ParsedElements(element_type, element_name) ==
    LET table == Document.tables[1]
        elements == IF element_type = "measure" THEN table.measures ELSE table.columns
    IN  {elements[i] : i \in {i \in 1..Len(elements) : elements[i].name = element_name}}

ExpressionOf(element_type, element) ==
    IF element_type = "measure" THEN <<element.expression>> ELSE element.expression

MultiLine(text, k) == ExpressionLines(text, k, k + 1) # {}

C24_ExpressionUpdated ==
    ExpressionUpdateParsed =>
        LET k == KeywordLine(Prev.before, Prev.element_type, Prev.element_name)
        IN  /\ Parsed
            /\ Document.tables # <<>>
            /\ Cardinality(ParsedElements(Prev.element_type, Prev.element_name)) = 1
            /\ \A element \in ParsedElements(Prev.element_type, Prev.element_name) :
                   ExpressionOf(Prev.element_type, element) = <<PropVal(Prev.updates, "expression").v>>
            /\ ~MultiLine(content, k)

\* the same for the definitions of one line
C24_SingleLineExpressionUpdated ==
    (/\ ExpressionUpdateParsed
     /\ ~MultiLine(Prev.before, KeywordLine(Prev.before, Prev.element_type, Prev.element_name)))
        => C24_ExpressionUpdated


(***************************************************************************)
(* C25: the value of an annotation is coerced by the first of these that   *)
(* applies: quoted text gives the text between the quotes; text starting   *)
(* with `{` or `[` gives the decoded JSON, or the raw text when decoding   *)
(* fails; `true`/`false` in any letter case gives a boolean; a token with  *)
(* a decimal point gives a float; otherwise an integer; a text that is     *)
(* none of these gives the raw trimmed text, and never an error.           *)
(***************************************************************************)
Coerced == LastIs("annotation")

Trimmed == Strip(content[1])

RawString(value) == value = [kind |-> "string", text |-> Trimmed]

InQuotes(s) ==
    \E q \in {"'", "\""} : Len(s) >= 1 /\ Ch(s, 1) = q /\ Ch(s, Len(s)) = q

C25_CoercionOrder ==
    Coerced =>
        LET value == Last.outcome[1]
        IN  /\ value.kind \in {"string", "json", "bool", "float", "int"}
            /\ IF InQuotes(Trimmed)
               THEN value = [kind |-> "string", text |-> Mid(Trimmed, 2, Len(Trimmed) - 1)]
               ELSE IF StartsWith(Trimmed, "{") \/ StartsWith(Trimmed, "[")
               THEN IF Trimmed \in ValidJson THEN value = [kind |-> "json", text |-> Trimmed]
                    ELSE RawString(value)
               ELSE IF Lower(Trimmed) \in {"true", "false"}
               THEN value = [kind |-> "bool", text |-> Lower(Trimmed)]
               ELSE IF Contains(Trimmed, ".")
               THEN IF IsFloatLiteral(Trimmed) THEN value = [kind |-> "float", text |-> Trimmed]
                    ELSE RawString(value)
               ELSE IF IsIntLiteral(Trimmed) THEN value = [kind |-> "int", text |-> Trimmed]
               ELSE RawString(value)

\* a token with a decimal point that is no number came back as it was
C25_Witness ==
    /\ Coerced
    /\ Trimmed = "1.x"
    /\ content[1] # Trimmed
    /\ RawString(Last.outcome[1])


(***************************************************************************)
(* C26: add_element only inserts.  Every line of the input is in the       *)
(* output, unmodified and in its original order; the formatted block is    *)
(* inserted as consecutive lines, each prefixed with the indentation of    *)
(* the depth asked for; the line right after the inserted block is blank,  *)
(* or the block ends the file.                                             *)
(***************************************************************************)
\* text is T with the lines of block put in after line p, and after these
\* a blank line or nothing
OnlyInserted(text, T, block, p) ==
    /\ SubSeq(text, 1, p) = SubSeq(T, 1, p)
    /\ SubSeq(text, p + 1, p + Len(block)) = block
    /\ \/ SubSeq(text, p + Len(block) + 1, Len(text)) = SubSeq(T, p + 1, Len(T))
       \/ SubSeq(text, p + Len(block) + 1, Len(text)) = <<"">> \o SubSeq(T, p + 1, Len(T))
    /\ p + Len(block) = Len(text) \/ IsBlank(text[p + Len(block) + 1])

C26_OnlyInserts ==
    LastIs("add") =>
        \E p \in 0..Len(Last.before) :
            OnlyInserted(content, Last.before, DefLines(Last.element_def), p)

\* a block of several lines went in before a line that is not blank, and a
\* blank line with it
C26_Witness ==
    /\ LastIs("add")
    /\ Len(DefLines(Last.element_def)) >= 2
    /\ Len(content) = Len(Last.before) + Len(DefLines(Last.element_def)) + 1
    /\ \E p \in 1..(Len(Last.before) - 1) :
           /\ OnlyInserted(content, Last.before, DefLines(Last.element_def), p)
           /\ ~IsBlank(Last.before[p + 1])


(***************************************************************************)
(* C27: update_element and delete_element take for the block of an element *)
(* the lines the parser takes for it: the run of lines after the keyword   *)
(* line that are indented deeper than it, in a text indented with tabs and *)
(* in one indented with spaces.  A delete removes the keyword line and the *)
(* property lines of the element; an update replaces a property line of    *)
(* the block where it stands, and puts a missing one inside the block.     *)
(***************************************************************************)
\* the last call changed an element the text held once
ChangesElement ==
    /\ Len(log) >= 1
    /\ Last.op \in {"update", "delete"}
    /\ Unique(Last.before, Last.element_type, Last.element_name)

\* text is T with the line j replaced by a line of the property
ReplacedAt(text, T, j, prop) ==
    /\ Len(text) = Len(T)
    /\ LineOf(text[j], prop)
    /\ Without(text, j, j) = Without(T, j, j)

\* text is T with a line of the property put in before the line j
PutInAt(text, T, j, prop) ==
    /\ Len(text) = Len(T) + 1
    /\ LineOf(text[j], prop)
    /\ Without(text, j, j) = T

C27_BlockBoundaries ==
    ChangesElement =>
        LET T == Last.before
            k == KeywordLine(T, Last.element_type, Last.element_name)
            x == ExitBoundary(T, k)
        IN  IF Last.op = "delete"
            THEN \E e \in LastBlockLine(T, k)..(x - 1) : content = AsContent(Without(T, k, e))
            ELSE \A u \in 1..Len(Last.updates) :
                     IF LinesOf(T, k, Last.updates[u].prop) # {}
                     THEN \E j \in LinesOf(T, k, Last.updates[u].prop) :
                              ReplacedAt(content, T, j, Last.updates[u].prop)
                     ELSE \E j \in (k + 1)..x : PutInAt(content, T, j, Last.updates[u].prop)

\* the same for the texts that are indented with tabs
C27_TabBlockBoundaries ==
    (ChangesElement /\ \A i \in 1..Len(Last.before) : ~StartsWith(Last.before[i], " "))
        => C27_BlockBoundaries


(***************************************************************************)
(* C28: parse_file terminates on every finite input.  The line cursor      *)
(* never decreases; every iteration of the loop of parse_file and of the   *)
(* loop of _parse_table moves the cursor on by at least one line, ends its *)
(* loop, or raises; and the parse ends with a document or with an error.   *)
(***************************************************************************)
Cursor(p) == IF p.frame = "table" THEN p.table.cur ELSE p.file.cur

\* the position before the iteration i of the log
PositionBefore(i) == IF i = 1 THEN EnterFile(<<>>) ELSE log[i - 1].outcome[1]

\* the iteration ended its loop: _parse_table returned to parse_file, or
\* parse_file returned
EndedLoop(p, q) ==
    \/ p.frame = "table" /\ q.frame = "file"
    \/ p.frame = "file" /\ q.frame = "returned"

Progress(p, q) ==
    /\ Cursor(q) >= Cursor(p)
    /\ Cursor(q) <= Len(content)
    /\ \/ Cursor(q) > Cursor(p)
       \/ EndedLoop(p, q)
       \/ q.frame = "raised" /\ q.file.err # <<>>

EveryIterationProgresses ==
    \A i \in 1..Len(log) : Progress(PositionBefore(i), log[i].outcome[1])

ParseEnded ==
    /\ Len(log) >= 1
    /\ \/ Last.outcome[1].frame = "returned" /\ Last.outcome[1].file.err = <<>>
       \/ Last.outcome[1].frame = "raised" /\ Last.outcome[1].file.err # <<>>

IterationsAreLoopBodies ==
    \A i \in 1..Len(log) :
        log[i].outcome[1] = IF PositionBefore(i).frame = "file"
                            THEN file_iteration(content, PositionBefore(i))
                            ELSE table_iteration(content, PositionBefore(i))

\* the iterations give what parse_file gives in one piece
IterationsAgreeWithParseFile ==
    ParseEnded =>
        [buf |-> Last.outcome[1].file.buf, err |-> Last.outcome[1].file.err,
         val |-> Last.outcome[1].file.val] = parse_file(content, <<>>)


(***************************************************************************)
(* C29: adding an element does not disturb the elements that are there.    *)
(* For a valid table text T that parses without error and a new element e, *)
(* the text add_element gives parses without error, and the table          *)
(* properties and every column, measure, hierarchy and partition of the    *)
(* parse of T are in the new parse with the same name, fields and          *)
(* description; the added element is the only difference.                  *)
(***************************************************************************)
\* the table the parser reads from the text before the addition
TableBefore == parse_file(Prev.before, <<>>)

\* an element was added to a valid table text that parsed and did not hold
\* it, and the new text was parsed
AddedThenParsed ==
    /\ Len(log) >= 2
    /\ LastIs("parse")
    /\ Prev.op = "add"
    /\ ValidTableText(Prev.before)
    /\ ~Present(Prev.before, Prev.element_type, Prev.element_name)
    /\ TableBefore.err = <<>>
    /\ Len(TableBefore.val.tables) = 1

Elements(seq) == {seq[i] : i \in 1..Len(seq)}

\* new holds every element of old, and one element more, of the name
OneMore(new, old, name) ==
    /\ Len(new) = Len(old) + 1
    /\ Elements(old) \subseteq Elements(new)
    /\ \E i \in 1..Len(new) : Unquote(new[i].name) = name

C29_AddKeepsElements ==
    AddedThenParsed =>
        /\ Parsed
        /\ Len(Document.tables) = 1
        /\ LET old == TableBefore.val.tables[1]
               new == Document.tables[1]
           IN  /\ [new EXCEPT !.columns = <<>>, !.measures = <<>>]
                      = [old EXCEPT !.columns = <<>>, !.measures = <<>>]
               /\ IF Prev.element_type = "column"
                  THEN new.measures = old.measures /\ OneMore(new.columns, old.columns, Prev.element_name)
                  ELSE new.columns = old.columns /\ OneMore(new.measures, old.measures, Prev.element_name)


(***************************************************************************)
(* C30: update_element is idempotent.  For a text T, an element it holds   *)
(* and an update set u, the update of the updated text by u is the updated *)
(* text, line for line; no property line gets a second copy.               *)
(***************************************************************************)
\* the same update of the same element twice in a row, on a text that held
\* the element once
UpdatedTwice ==
    /\ Len(log) >= 2
    /\ LastIs("update")
    /\ Prev.op = "update"
    /\ Last.element_type = Prev.element_type
    /\ Last.element_name = Prev.element_name
    /\ Last.updates = Prev.updates
    /\ Unique(Prev.before, Prev.element_type, Prev.element_name)

C30_UpdateIdempotent == UpdatedTwice => content = Last.before

\* the same for the update sets that do not set the flag
C30_UpdateIdempotentWithoutFlag ==
    (UpdatedTwice /\ ~HasProp(Last.updates, "is_hidden")) => C30_UpdateIdempotent

====
